---- MODULE Spec2Model ----
(***************************************************************************)
(* A model of the go-mcp-sdk JSON-RPC client (mcp/client.go), server       *)
(* (mcp/server.go), wire types (mcp/protocol.go) and the transport         *)
(* interface (mcp/transports/stdio.go).                                    *)
(*                                                                         *)
(* The client and the server are two processes joined by two byte streams: *)
(* c2s carries the frames the client writes, s2c the frames the server     *)
(* writes.  Every goroutine is a process of the model; a step of the model *)
(* is one access to shared state (a lock section, a transport call, a      *)
(* channel operation) with the local computation around it.                *)
(***************************************************************************)
EXTENDS Integers, Sequences, FiniteSets, Bags, TLC

\* Number of CallRaw invocations made on the client.
MaxCalls == 2

\* Number of frames a peer of the server has in flight at one time.
MaxInFlight == 2

\* The RegisterPrompt calls an application makes before it serves.
MaxRegistrations == 2

----------------------------------------------------------------------------
(* JSON values on the wire.                                                *)

\* An "id" member.  A JSON number n or n + 1/2 (frac), the JSON number
\* 2^53 + n (big), a string, or null.
NumId(n) == [t |-> "num", n |-> n, frac |-> FALSE]

BigId(n) == [t |-> "big", n |-> n, frac |-> FALSE]

FracId(n) == [t |-> "num", n |-> n, frac |-> TRUE]

StrId == [t |-> "str", n |-> 0, frac |-> FALSE]

NullId == [t |-> "null", n |-> 0, frac |-> FALSE]

\* A payload (json.RawMessage): absent, or a value.  `set` holds the
\* <<name, template>> pairs of a prompt mapping.
Absent == [k |-> "absent", n |-> 0, set |-> {}]

NumVal(kind, n) == [k |-> kind, n |-> n, set |-> {}]

SetVal(kind, s) == [k |-> kind, n |-> 0, set |-> s]

\* The "error" member of a Response (*RPCError); nil when the member is
\* missing or null.
NoError == [present |-> FALSE, code |-> 0, message |-> <<>>]

RPCError(code, message) == [present |-> TRUE, code |-> code, message |-> message]

\* The "params" member: absent, an object {"name":..,"params":..} (either
\* member may be missing), or a JSON value that is not an object.
NoInner == [k |-> "absent", value |-> 0]

InnerObj(v) == [k |-> "obj", value |-> v]

BadInner == [k |-> "scalar", value |-> 0]

NoParams == [k |-> "absent", name |-> "", inner |-> NoInner]

ObjParams(name, inner) == [k |-> "obj", name |-> name, inner |-> inner]

ScalarParams == [k |-> "scalar", name |-> "", inner |-> NoInner]

\* A frame: one JSON text.  obj: it is a JSON object.  bad: the member whose
\* JSON type does not fit the Go field it decodes into ("none" when all fit).
Frame(hasId, id, jsonrpc, method, params, result, error, bad) ==
    [obj |-> TRUE, hasId |-> hasId, id |-> id, jsonrpc |-> jsonrpc,
     method |-> method, params |-> params, result |-> result,
     error |-> error, bad |-> bad]

\* A JSON text that is no object, such as [1] or 7.
NotAnObject ==
    [obj |-> FALSE, hasId |-> FALSE, id |-> NullId, jsonrpc |-> "",
     method |-> "", params |-> NoParams, result |-> Absent,
     error |-> NoError, bad |-> "none"]

\* A line that is no JSON text: ReadMessage fails on it (stdio.go line 40).
NotJSON == [NotAnObject EXCEPT !.bad = "json"]

\* The end of the stream: the peer has closed its end, and ReadMessage
\* returns io.EOF (stdio.go lines 35-37).
EndOfStream == [NotAnObject EXCEPT !.bad = "eof"]

\* What json.Marshal(Request{...}) writes (protocol.go Request).
RequestFrame(id, method, params) ==
    Frame(TRUE, id, "2.0", method, params, Absent, NoError, "none")

\* What json.Marshal(Response{...}) writes (protocol.go Response): result and
\* error are omitted when empty, id is always written.
ResponseFrame(id, result, error) ==
    Frame(TRUE, id, "2.0", "", NoParams, result, error, "none")

\* What json.Marshal(Notification{...}) writes: no id member.
NotificationFrame(method, params) ==
    Frame(FALSE, NullId, "2.0", method, params, Absent, NoError, "none")

----------------------------------------------------------------------------
(* Go values of the client.                                                *)

\* An error value returned by CallRaw: nil, or an error with its text.
NilErr == [kind |-> "nil", text |-> <<>>]

\* fmt.Errorf("rpc error: %s", msg)
RpcErrorf(msg) == [kind |-> "errorString", text |-> <<"rpc error: ">> \o msg]

MarshalErr == [kind |-> "marshal", text |-> <<"json: unsupported type">>]

WriteErr == [kind |-> "transport", text |-> <<"write failed">>]

\* The value sent over a call's channel.
responseChan(result, err) == [result |-> result, err |-> err]

\* The params argument of CallRaw (interface{}): nil, a value json.Marshal
\* cannot encode, or a value with its encoding.
GoNil == [k |-> "nil", json |-> NoParams]

Unencodable == [k |-> "unencodable", json |-> NoParams]

GoValue(json) == [k |-> "value", json |-> json]

Calls == 1..MaxCalls

VARIABLES
    nextID,                 \* Client.nextID
    pendingRequests,        \* Client.pendingRequests: id -> channel (the call that made it)
    notificationHandlers,   \* Client.notificationHandlers: the methods with a handler
    chans,                  \* the channel made by each CallRaw invocation
    calls,                  \* each CallRaw invocation: position and locals
    rl,                     \* the client read loop goroutine: position and locals
    c2s,                    \* frames written by the client, not yet read
    s2c,                    \* frames written to the client, not yet read
    delivered,              \* history: the frames whose payload was sent on each channel
    notified,               \* history: the notification handler invocations
    handlers,               \* Server.handlers: method -> HandlerFunc
    prompts,                \* Server.prompts: name -> template
    resourceHandlers,       \* Server.resourceHandlers: name -> Handler
    toolHandlers,           \* Server.toolHandlers: name -> Handler
    serve,                  \* the goroutine running Server.Serve: its position
    tasks,                  \* the goroutines running Server.handleMessage (a bag)
    finished,               \* history: the handleMessage goroutine that ended last
    stop,                   \* Client.stop is closed
    closer,                 \* the goroutine calling Client.Close: its position
    closed,                 \* the client's transport: Close was called on it
    registered,             \* history: the RegisterPrompt calls, in order
    mu,                     \* Server.mu: the goroutine that holds it
    reg,                    \* a goroutine calling RegisterHandler while Serve runs
    stdio,                  \* a StdioTransport, its streams and the goroutines using it
    sse                     \* an SSETransport, its event stream and the goroutines using it

closeVars == <<stop, closer, closed>>

transportVars == <<stdio, sse>>

lockVars == <<mu, reg>>

clientVars == <<nextID, pendingRequests, notificationHandlers, chans, calls, rl,
                delivered, notified, closeVars>>

serverVars == <<handlers, prompts, resourceHandlers, toolHandlers, serve, tasks, finished,
                registered, lockVars>>

vars == <<nextID, pendingRequests, notificationHandlers, chans, calls, rl,
          c2s, s2c, delivered, notified,
          handlers, prompts, resourceHandlers, toolHandlers, serve, tasks, finished,
          stop, closer, closed, registered, stdio, sse, mu, reg>>

----------------------------------------------------------------------------
(* Go maps.                                                                *)

MapPut(m, key, v) == [i \in DOMAIN m \cup {key} |-> IF i = key THEN v ELSE m[i]]

MapDelete(m, key) == [i \in DOMAIN m \ {key} |-> m[i]]

EmptyMap == [i \in {} |-> 0]

----------------------------------------------------------------------------
(* The client: mcp/client.go.                                              *)

\* make(chan responseChan, 1)
ChanCap == 1

NewChan == [buf |-> <<>>, closed |-> FALSE]

\* The zero responseChan, received from a closed and empty channel.
ZeroResponse == responseChan(Absent, NoError)

NoReturn == [result |-> Absent, err |-> NilErr]

IdleCall ==
    [pc |-> "idle", id |-> -1, method |-> "", params |-> GoNil,
     resp |-> ZeroResponse, ret |-> NoReturn, writes |-> 0]

\* The read loop before its first frame; frame is the frame read last (msg).
IdleLoop == [pc |-> "read", ch |-> 0, resp |-> ZeroResponse, frame |-> NotAnObject]

\* A panic in any goroutine ends the client's process.
Alive == rl.pc # "panicked"

\* A counter that is read and not advanced.
NextIDSame(n) == n

\* c.nextID++ (line 94)
NextIDAfter(n) == n + 1

\* A CallRaw that has not registered its channel when it writes.
CallRawUnregistered(k, method, params) ==
    /\ Alive
    /\ calls[k].pc = "idle"
    /\ k > 1 => calls[k - 1].pc # "idle"
    /\ nextID' = NextIDAfter(nextID)
    /\ chans' = [chans EXCEPT ![k] = NewChan]
    /\ calls' = [calls EXCEPT ![k] = [@ EXCEPT !.pc = "encode", !.id = nextID,
                                                !.method = method, !.params = params]]
    /\ UNCHANGED <<pendingRequests, notificationHandlers, rl, c2s, s2c, delivered, notified,
                   serverVars, transportVars, closeVars>>

\* CallRaw lines 92-97: under the lock, take the next id, make the channel,
\* register it.  Invocations are numbered in the order they take the lock.
CallRawRegister(k, method, params) ==
    /\ Alive
    /\ calls[k].pc = "idle"
    /\ k > 1 => calls[k - 1].pc # "idle"
    /\ nextID' = NextIDAfter(nextID)
    /\ chans' = [chans EXCEPT ![k] = NewChan]
    /\ pendingRequests' = MapPut(pendingRequests, nextID, k)
    /\ calls' = [calls EXCEPT ![k] = [@ EXCEPT !.pc = "encode", !.id = nextID,
                                                !.method = method, !.params = params]]
    /\ UNCHANGED <<notificationHandlers, rl, c2s, s2c, delivered, notified, serverVars, transportVars, closeVars>>

\* CallRaw lines 104-120: json.Marshal(params) fails; the entry is deleted
\* and the error returned.  (json.Marshal(req) cannot fail once the params
\* are encoded: every other field is a string or an int.)
CallRawEncodeFail(k) ==
    /\ Alive
    /\ calls[k].pc = "encode"
    /\ calls[k].params.k = "unencodable"
    /\ pendingRequests' = MapDelete(pendingRequests, calls[k].id)
    /\ calls' = [calls EXCEPT ![k] = [@ EXCEPT !.pc = "done",
                                       !.ret = [result |-> Absent, err |-> MarshalErr]]]
    /\ UNCHANGED <<nextID, notificationHandlers, chans, rl, c2s, s2c, delivered, notified, serverVars, transportVars, closeVars>>

\* A Request that carries the counter as it is after the increment.
CallRawRequestAdvanced(c) ==
    RequestFrame(NumId(NextIDAfter(c.id)), c.method,
                 IF c.params.k = "nil" THEN NoParams ELSE c.params.json)

\* The Request CallRaw encodes (lines 99-114): params omitted when nil.
CallRawRequest(c) ==
    RequestFrame(NumId(c.id), c.method,
                 IF c.params.k = "nil" THEN NoParams ELSE c.params.json)

\* CallRaw line 122, WriteMessage returns nil: the frame is on the stream.
CallRawWrite(k) ==
    /\ Alive
    /\ calls[k].pc = "encode"
    /\ calls[k].params.k # "unencodable"
    /\ c2s' = Append(c2s, CallRawRequest(calls[k]))
    /\ calls' = [calls EXCEPT ![k] = [@ EXCEPT !.pc = "wait", !.writes = @ + 1]]
    /\ UNCHANGED <<nextID, pendingRequests, notificationHandlers, chans, rl, s2c,
                   delivered, notified, serverVars, transportVars, closeVars>>

\* CallRaw line 122, WriteMessage returns an error: nothing reaches the peer.
CallRawWriteFail(k) ==
    /\ Alive
    /\ calls[k].pc = "encode"
    /\ calls[k].params.k # "unencodable"
    /\ calls' = [calls EXCEPT ![k] = [@ EXCEPT !.pc = "writeFailed", !.writes = @ + 1]]
    /\ UNCHANGED <<nextID, pendingRequests, notificationHandlers, chans, rl, c2s, s2c,
                   delivered, notified, serverVars, transportVars, closeVars>>

\* A failed write that returns and leaves its entry in the map.
CallRawWriteFailedLeak(k) ==
    /\ Alive
    /\ calls[k].pc = "writeFailed"
    /\ calls' = [calls EXCEPT ![k] = [@ EXCEPT !.pc = "done",
                                       !.ret = [result |-> Absent, err |-> WriteErr]]]
    /\ UNCHANGED <<nextID, pendingRequests, notificationHandlers, chans, rl, c2s, s2c,
                   delivered, notified, serverVars, transportVars, closeVars>>

\* A failed write that hands its identifier back to the counter.
CallRawWriteFailedReuse(k) ==
    /\ Alive
    /\ calls[k].pc = "writeFailed"
    /\ pendingRequests' = MapDelete(pendingRequests, calls[k].id)
    /\ nextID' = calls[k].id
    /\ calls' = [calls EXCEPT ![k] = [@ EXCEPT !.pc = "done",
                                       !.ret = [result |-> Absent, err |-> WriteErr]]]
    /\ UNCHANGED <<notificationHandlers, chans, rl, c2s, s2c, delivered, notified, serverVars, transportVars, closeVars>>

\* CallRaw lines 123-126: after a failed write, delete the entry and return.
CallRawWriteFailed(k) ==
    /\ Alive
    /\ calls[k].pc = "writeFailed"
    /\ pendingRequests' = MapDelete(pendingRequests, calls[k].id)
    /\ calls' = [calls EXCEPT ![k] = [@ EXCEPT !.pc = "done",
                                       !.ret = [result |-> Absent, err |-> WriteErr]]]
    /\ UNCHANGED <<nextID, notificationHandlers, chans, rl, c2s, s2c, delivered, notified, serverVars, transportVars, closeVars>>

\* CallRaw lines 132-135: the return value for a received responseChan.
CallRawResult(resp) ==
    IF resp.err.present
    THEN [result |-> Absent, err |-> RpcErrorf(resp.err.message)]
    ELSE [result |-> resp.result, err |-> NilErr]

\* CallRaw lines 130-135: receive from the channel, return.
CallRawReceive(k) ==
    /\ Alive
    /\ calls[k].pc = "wait"
    /\ chans[k].buf # <<>> \/ chans[k].closed
    /\ LET resp == IF chans[k].buf # <<>> THEN Head(chans[k].buf) ELSE ZeroResponse
       IN  /\ calls' = [calls EXCEPT ![k] = [@ EXCEPT !.pc = "done", !.resp = resp,
                                                      !.ret = CallRawResult(resp)]]
           /\ chans' = [chans EXCEPT ![k].buf = IF @ # <<>> THEN Tail(@) ELSE @]
    /\ UNCHANGED <<nextID, pendingRequests, notificationHandlers, rl, c2s, s2c,
                   delivered, notified, serverVars, transportVars, closeVars>>

\* RegisterNotificationHandler lines 177-181.
RegisterNotificationHandler(method) ==
    /\ Alive
    /\ notificationHandlers' = notificationHandlers \cup {method}
    /\ UNCHANGED <<nextID, pendingRequests, chans, calls, rl, c2s, s2c, delivered, notified, serverVars, transportVars, closeVars>>

\* A look-up by position: the oldest pending call, whatever the id.
idIntOldest(id) ==
    IF DOMAIN pendingRequests = {} THEN id.n
    ELSE CHOOSE i \in DOMAIN pendingRequests : \A j \in DOMAIN pendingRequests : i <= j

\* int(id.(float64)) (line 74): the number truncated to an int.  (The peers
\* of the client modelled here send it no number beyond 2^53.)
idInt(id) == id.n

\* A routing that reads m["id"] without asking whether the member is there.
handleMessageRouteUnchecked(f) ==
    IF ~f.obj THEN "drop"
    ELSE IF f.bad \in {"jsonrpc", "error"} THEN "drop"
    ELSE IF f.id.t \in {"str", "null"} THEN "panic"
    ELSE "lookup"

\* handleMessage lines 63-74: what becomes of a frame.
\*   "drop"   json.Unmarshal fails (into the map, or into Response)
\*   "ignore" no "id" member: nothing is done with the frame
\*   "panic"  the id is no number: the type assertion id.(float64) panics
\*   "lookup" the id is looked up in pendingRequests
handleMessageRoute(f) ==
    IF ~f.obj THEN "drop"
    ELSE IF ~f.hasId THEN "ignore"
    ELSE IF f.bad \in {"jsonrpc", "error"} THEN "drop"
    ELSE IF f.id.t \in {"str", "null"} THEN "panic"
    ELSE "lookup"

\* readLoop lines 141-145: the select at the top of the loop returns when
\* stop is closed and goes on to ReadMessage otherwise.
readLoopSelect == IF stop THEN "stopped" ELSE "read"

\* The first pass of the read loop through its select (lines 140-146).
ReadLoopSelect ==
    /\ rl.pc = "select"
    /\ rl' = [rl EXCEPT !.pc = readLoopSelect]
    /\ UNCHANGED <<nextID, pendingRequests, notificationHandlers, chans, calls, c2s, s2c,
                   delivered, notified, serverVars, transportVars, closeVars>>

\* A look-up that leaves the entry in the map.
handleMessageKeep(m, id) == m

\* A look-up that empties the map.
handleMessageTakeAll(m, id) == EmptyMap

\* handleMessage lines 77-79: delete(c.pendingRequests, idInt), done under
\* the lock and before the send on the channel.
handleMessageTake(m, id) == MapDelete(m, id)

\* A read loop that on its way out forgets the calls still pending.
readLoopExitClear(m) == EmptyMap

\* readLoop lines 147-154: on io.EOF or any other error the loop returns;
\* the map of pending calls is left as it is.
readLoopExit(m) == m

\* readLoop lines 146-156 with handleMessage lines 62-81: read one frame,
\* decode it, and under the lock take the matching channel out of the map.
\* A frame on which ReadMessage fails (the end of the stream, or a line
\* that is no JSON) ends the loop; after a frame that is not delivered the
\* loop is back at its select.
ReadLoopRead ==
    /\ rl.pc = "read"
    /\ s2c # <<>>
    /\ LET f == Head(s2c)
           route == handleMessageRoute(f)
       IN  /\ s2c' = Tail(s2c)
           /\ IF f.bad \in {"json", "eof"}
              THEN /\ rl' = [rl EXCEPT !.pc = "stopped", !.frame = f]
                   /\ pendingRequests' = readLoopExit(pendingRequests)
              ELSE IF route = "panic"
              THEN /\ rl' = [rl EXCEPT !.pc = "panicked", !.frame = f]
                   /\ UNCHANGED pendingRequests
              ELSE IF route = "lookup" /\ idInt(f.id) \in DOMAIN pendingRequests
              THEN /\ rl' = [pc |-> "deliver", ch |-> pendingRequests[idInt(f.id)],
                             resp |-> responseChan(f.result, f.error), frame |-> f]
                   /\ pendingRequests' = handleMessageTake(pendingRequests, idInt(f.id))
              ELSE /\ rl' = [rl EXCEPT !.frame = f, !.pc = readLoopSelect]
                   /\ UNCHANGED pendingRequests
    /\ UNCHANGED <<nextID, notificationHandlers, chans, calls, c2s, delivered, notified, serverVars, transportVars, closeVars>>

\* A send on a channel without a buffer: it waits for the receiver.
SendReadyUnbuffered(k) == calls[k].pc = "wait" /\ chans[k].buf = <<>>

\* ch <- v on the channel CallRaw made with make(chan responseChan, 1)
\* (line 95): the send proceeds while the buffer has room, whatever the
\* receiver does.
SendReady(k) == Len(chans[k].buf) < ChanCap

\* handleMessage lines 82-86: ch <- responseChan{...}; close(ch).  A send on
\* a closed channel panics; a send on a full channel blocks.
ReadLoopDeliver ==
    /\ rl.pc = "deliver"
    /\ chans[rl.ch].closed \/ SendReady(rl.ch)
    /\ IF chans[rl.ch].closed
       THEN /\ rl' = [rl EXCEPT !.pc = "panicked"]
            /\ UNCHANGED <<chans, delivered>>
       ELSE /\ chans' = [chans EXCEPT ![rl.ch] =
                            [buf |-> Append(@.buf, rl.resp), closed |-> TRUE]]
            /\ delivered' = [delivered EXCEPT ![rl.ch] = Append(@, rl.frame)]
            /\ rl' = [IdleLoop EXCEPT !.frame = rl.frame, !.pc = readLoopSelect]
    /\ UNCHANGED <<nextID, pendingRequests, notificationHandlers, calls, c2s, s2c, notified,
                   serverVars, transportVars, closeVars>>

\* A Close that also fails every pending call: it empties the map and
\* closes the channels.
CloseSignalBroadcast ==
    /\ Alive
    /\ closer = "idle"
    /\ stop' = TRUE
    /\ closer' = "wait"
    /\ pendingRequests' = EmptyMap
    /\ chans' = [k \in Calls |->
                    IF \E i \in DOMAIN pendingRequests : pendingRequests[i] = k
                    THEN [chans[k] EXCEPT !.closed = TRUE] ELSE chans[k]]
    /\ UNCHANGED <<nextID, notificationHandlers, calls, rl, c2s, s2c,
                   delivered, notified, serverVars, transportVars, closed>>

\* Close lines 185-187: under the lock, close(c.stop).
CloseSignal ==
    /\ Alive
    /\ closer = "idle"
    /\ stop' = TRUE
    /\ closer' = "wait"
    /\ UNCHANGED <<nextID, pendingRequests, notificationHandlers, chans, calls, rl, c2s, s2c,
                   delivered, notified, serverVars, transportVars, closed>>

\* Close lines 188-189: c.wg.Wait() returns once readLoop has returned; then
\* the transport is closed and Close returns.
CloseReturn ==
    /\ Alive
    /\ closer = "wait"
    /\ rl.pc = "stopped"
    /\ closed' = TRUE
    /\ closer' = "done"
    /\ UNCHANGED <<nextID, pendingRequests, notificationHandlers, chans, calls, rl, c2s, s2c,
                   delivered, notified, serverVars, transportVars, stop>>

\* NewClient lines 32-42, with the read loop goroutine at position pc.
ClientStart(pc) ==
    /\ nextID = 0
    /\ pendingRequests = EmptyMap
    /\ notificationHandlers = {}
    /\ chans = [k \in Calls |-> NewChan]
    /\ calls = [k \in Calls |-> IdleCall]
    /\ rl = [IdleLoop EXCEPT !.pc = pc]
    /\ delivered = [k \in Calls |-> <<>>]
    /\ notified = <<>>
    /\ stop = FALSE
    /\ closer = "idle"
    /\ closed = FALSE

\* The client after NewClient where Close is never called: the first select
\* of the read loop finds stop open and the loop is in ReadMessage.
ClientInit == ClientStart("read")

----------------------------------------------------------------------------
(* The server: mcp/server.go.                                              *)

ParseErrorCode == -32700

InvalidRequestCode == -32600

MethodNotFoundCode == -32601

ApplicationErrorCode == -32000

\* A Go error value of the server: nil, or an error with its text.
NoErr == [present |-> FALSE, text |-> <<>>]

Err(text) == [present |-> TRUE, text |-> text]

\* A handler's result (interface{}): nil, a value with its encoding, the
\* server's prompts map itself (encoded when the Response is), or a value
\* json.Marshal cannot encode.
NilResult == [k |-> "nil", val |-> Absent]

Result(val) == [k |-> "value", val |-> val]

PromptsMap == [k |-> "prompts", val |-> Absent]

UnencodableResult == [k |-> "unencodable", val |-> Absent]

\* The encoding of a map[string]Prompt and of a Prompt.
PromptsJSON(m) == SetVal("prompts", { <<n, m[n]>> : n \in DOMAIN m })

PromptJSON(name, template) == SetVal("prompt", { <<name, template>> })

\* The typed functions an application wraps with NewResource / NewTool:
\* "double" returns {"double": 2 * value}, "broken" returns an error.
TypedCall(fn, value) ==
    IF fn = "double"
    THEN [result |-> Result(NumVal("double", 2 * value)), err |-> NoErr]
    ELSE [result |-> Result(NumVal("double", 0)), err |-> Err(<<"broken">>)]

\* Resource.ServeJSONRPC lines 50-65: absent inner params leave the zero
\* request.
ResourceServeJSONRPC(fn, params) ==
    IF params.inner.k = "scalar"
    THEN [result |-> NilResult, err |-> Err(<<"json: cannot unmarshal">>)]
    ELSE TypedCall(fn, IF params.inner.k = "obj" THEN params.inner.value ELSE 0)

\* Tool.ServeJSONRPC lines 73-86: the inner params are always decoded.
ToolServeJSONRPC(fn, params) ==
    IF params.inner.k = "absent"
    THEN [result |-> NilResult, err |-> Err(<<"unexpected end of JSON input">>)]
    ELSE IF params.inner.k = "scalar"
    THEN [result |-> NilResult, err |-> Err(<<"json: cannot unmarshal">>)]
    ELSE TypedCall(fn, params.inner.value)

\* A Handler value: NewResource(fn), NewTool(fn), or a HandlerFunc of the
\* application that returns a value, nil, an error or an unencodable value.
NewResource(fn) == [wrap |-> "Resource", fn |-> fn]

NewTool(fn) == [wrap |-> "Tool", fn |-> fn]

HandlerFunc(behaviour) == [wrap |-> "HandlerFunc", fn |-> behaviour]

NoHandler == [wrap |-> "none", fn |-> ""]

ServeJSONRPC(h, params) ==
    IF h.wrap = "Resource" THEN ResourceServeJSONRPC(h.fn, params)
    ELSE IF h.wrap = "Tool" THEN ToolServeJSONRPC(h.fn, params)
    ELSE IF h.fn = "value" THEN [result |-> Result(NumVal("custom", 7)), err |-> NoErr]
    ELSE IF h.fn = "nil" THEN [result |-> NilResult, err |-> NoErr]
    ELSE IF h.fn = "unencodable" THEN [result |-> UnencodableResult, err |-> NoErr]
    ELSE [result |-> NilResult, err |-> Err(<<"handler failed">>)]

\* json.Unmarshal(params, &p) with p struct{Name string}: fails on absent
\* params and on params that are no object.
ParamsName(params) ==
    IF params.k = "absent" THEN [name |-> "", err |-> Err(<<"unexpected end of JSON input">>)]
    ELSE IF params.k = "scalar" THEN [name |-> "", err |-> Err(<<"json: cannot unmarshal">>)]
    ELSE [name |-> params.name, err |-> NoErr]

BuiltIn == {"listPrompts", "getPrompt", "getResource", "executeTool"}

\* A handleMessage goroutine started for frame msg.  written: the frames it
\* has passed to WriteMessage; invoked: a handler was called.
NewTask(msg) ==
    [pc |-> "decode", msg |-> msg, handler |-> NoHandler,
     result |-> NilResult, err |-> NoErr, written |-> <<>>, invoked |-> FALSE]

NoTask == [NewTask(NotAnObject) EXCEPT !.pc = "none"]

\* The goroutines of the bag, and the bag with goroutine t replaced by u.
Running == BagToSet(tasks)

Step(t, u) == (tasks (-) SetToBag({t})) (+) SetToBag({u})

End(t) == tasks (-) SetToBag({t})

\* NewServer lines 99-111.
ServerInit ==
    /\ handlers = [m \in BuiltIn |-> HandlerFunc(m)]
    /\ prompts = EmptyMap
    /\ resourceHandlers = EmptyMap
    /\ toolHandlers = EmptyMap
    /\ serve = "idle"
    /\ tasks = EmptyBag
    /\ finished = NoTask
    /\ registered = <<>>
    /\ mu = "none"
    /\ reg = "idle"

\* RegisterHandler lines 114-118, each Register function likewise: Lock, the
\* write to the map, Unlock, here in one step.
RegisterHandler(method, handler) ==
    /\ mu = "none"
    /\ handlers' = MapPut(handlers, method, handler)
    /\ UNCHANGED <<clientVars, transportVars, lockVars, registered, c2s, s2c, prompts, resourceHandlers, toolHandlers, serve, tasks, finished>>

\* The application calls RegisterHandler from a goroutine of its own: the
\* call is made and waits at s.mu.Lock() (line 115).  (A process the
\* runtime has stopped takes no step.)
RegisterHandlerCall ==
    /\ serve # "crashed"
    /\ reg = "idle"
    /\ reg' = "lock"
    /\ UNCHANGED <<clientVars, transportVars, mu, registered, c2s, s2c, handlers, prompts,
                   resourceHandlers, toolHandlers, serve, tasks, finished>>

\* RegisterHandler line 115: s.mu.Lock() returns with the lock held.
RegisterHandlerLock ==
    /\ serve # "crashed"
    /\ reg = "lock"
    /\ mu = "none"
    /\ mu' = "reg"
    /\ reg' = "locked"
    /\ UNCHANGED <<clientVars, transportVars, registered, c2s, s2c, handlers, prompts,
                   resourceHandlers, toolHandlers, serve, tasks, finished>>

\* RegisterHandler lines 116-118: the write to s.handlers and the deferred
\* Unlock.
RegisterHandlerWrite(method, handler) ==
    /\ serve # "crashed"
    /\ reg = "locked"
    /\ mu = "reg"
    /\ handlers' = MapPut(handlers, method, handler)
    /\ mu' = "none"
    /\ reg' = "done"
    /\ UNCHANGED <<clientVars, transportVars, registered, c2s, s2c, prompts,
                   resourceHandlers, toolHandlers, serve, tasks, finished>>

\* RegisterResource lines 121-125.
RegisterResource(name, handler) ==
    /\ mu = "none"
    /\ resourceHandlers' = MapPut(resourceHandlers, name, handler)
    /\ UNCHANGED <<clientVars, transportVars, lockVars, registered, c2s, s2c, handlers, prompts, toolHandlers, serve, tasks, finished>>

\* RegisterTool lines 128-132.
RegisterTool(name, handler) ==
    /\ mu = "none"
    /\ toolHandlers' = MapPut(toolHandlers, name, handler)
    /\ UNCHANGED <<clientVars, transportVars, lockVars, registered, c2s, s2c, handlers, prompts, resourceHandlers, serve, tasks, finished>>

\* A RegisterPrompt that keeps the prompt already registered under the name.
RegisterPromptKeepFirst(name, template) ==
    /\ mu = "none"
    /\ prompts' = IF name \in DOMAIN prompts THEN prompts ELSE MapPut(prompts, name, template)
    /\ registered' = Append(registered, <<name, template>>)
    /\ UNCHANGED <<clientVars, transportVars, lockVars, c2s, s2c, handlers, resourceHandlers, toolHandlers, serve, tasks, finished>>

\* RegisterPrompt lines 135-139.
RegisterPrompt(name, template) ==
    /\ mu = "none"
    /\ prompts' = MapPut(prompts, name, template)
    /\ registered' = Append(registered, <<name, template>>)
    /\ UNCHANGED <<clientVars, transportVars, lockVars, c2s, s2c, handlers, resourceHandlers, toolHandlers, serve, tasks, finished>>

\* A goroutine holds s.prompts, the value listPromptsHandler returned (line
\* 260), outside the lock, until json.Marshal has encoded it (line 226).
EncodesPrompts(t) == t.pc = "respond" /\ t.result.k = "prompts"

\* RegisterPrompt writes s.prompts (line 138) while a goroutine encodes the
\* same map (line 226) without the lock: a data race.  Besides the old and
\* the new map being encoded, the Go runtime may stop the process ("fatal
\* error: concurrent map iteration and map write").
RegisterPromptFatal(name, template) ==
    /\ \E t \in Running : EncodesPrompts(t)
    /\ serve' = "crashed"
    /\ tasks' = EmptyBag
    /\ registered' = Append(registered, <<name, template>>)
    /\ UNCHANGED <<clientVars, transportVars, lockVars, c2s, s2c, handlers, prompts, resourceHandlers,
                   toolHandlers, finished>>

\* Serve line 171: the transport is set and the loop entered.
ServeStart ==
    /\ serve = "idle"
    /\ serve' = "loop"
    /\ UNCHANGED <<clientVars, transportVars, lockVars, registered, c2s, s2c, handlers, prompts, resourceHandlers, toolHandlers, tasks, finished>>

\* A Serve that reports the end of the stream as a failure.
ServeReturnFailure(f) == "returned error"

\* Serve lines 184-191: what Serve returns when ReadMessage fails on f, nil
\* on io.EOF and the error otherwise.
ServeReturn(f) == IF f.bad = "eof" THEN "returned nil" ELSE "returned error"

\* A serve loop that handles each message itself before it reads the next.
ServeReadInline ==
    /\ serve = "loop"
    /\ c2s # <<>>
    /\ tasks = EmptyBag
    /\ c2s' = Tail(c2s)
    /\ IF Head(c2s).bad \in {"json", "eof"}
       THEN serve' = ServeReturn(Head(c2s)) /\ UNCHANGED tasks
       ELSE /\ tasks' = SetToBag({NewTask(Head(c2s))})
            /\ UNCHANGED serve
    /\ UNCHANGED <<clientVars, transportVars, lockVars, registered, s2c, handlers, prompts, resourceHandlers, toolHandlers,
                   finished>>

\* A Serve that waits for the goroutines it started before it returns.
ServeReadJoin ==
    /\ serve = "loop"
    /\ c2s # <<>>
    /\ Head(c2s).bad \in {"json", "eof"} => tasks = EmptyBag
    /\ c2s' = Tail(c2s)
    /\ IF Head(c2s).bad \in {"json", "eof"}
       THEN serve' = ServeReturn(Head(c2s)) /\ UNCHANGED tasks
       ELSE /\ tasks' = tasks (+) SetToBag({NewTask(Head(c2s))})
            /\ UNCHANGED serve
    /\ UNCHANGED <<clientVars, transportVars, lockVars, registered, s2c, handlers, prompts, resourceHandlers, toolHandlers,
                   finished>>

\* Serve lines 183-193: read a frame and start a goroutine for it.  When
\* ReadMessage fails (the end of the stream, or a line that is no JSON,
\* stdio.go line 40) Serve returns.
ServeRead ==
    /\ serve = "loop"
    /\ c2s # <<>>
    /\ c2s' = Tail(c2s)
    /\ IF Head(c2s).bad \in {"json", "eof"}
       THEN serve' = ServeReturn(Head(c2s)) /\ UNCHANGED tasks
       ELSE /\ tasks' = tasks (+) SetToBag({NewTask(Head(c2s))})
            /\ UNCHANGED serve
    /\ UNCHANGED <<clientVars, transportVars, lockVars, registered, s2c, handlers, prompts, resourceHandlers, toolHandlers,
                   finished>>

\* json.Unmarshal(msg, &req) fails (line 199): the text is no object, or
\* "jsonrpc" or "method" is no string.
RequestDecodes(f) == f.obj /\ f.bad \notin {"jsonrpc", "method"}

\* A JSON number decoded into an interface{}: the nearest float64.  Between
\* 2^53 and 2^54 the float64 values are the even integers, and a tie goes to
\* the even mantissa.
Float64(id) ==
    IF id.t # "big" \/ id.n % 2 = 0 THEN id
    ELSE IF id.n % 4 = 1 THEN BigId(id.n - 1)
    ELSE BigId(id.n + 1)

\* A decoding that leaves the id out.
RequestIDNil(f) == NullId

\* req.ID after decoding: nil when the frame has no id member.
RequestID(f) == IF f.hasId THEN Float64(f.id) ELSE NullId

\* sendError lines 237-253: the Response it encodes.
sendError(id, code, message) == ResponseFrame(id, Absent, RPCError(code, message))

\* The goroutine reaches handler, ok := s.handlers[req.Method] (line 209).
ReadsHandlers(t) == t.pc = "decode" /\ RequestDecodes(t.msg) /\ t.msg.jsonrpc = "2.0"

\* handleMessage line 209 reads s.handlers without the lock while
\* RegisterHandler, holding it, writes the map (line 117): a data race.
\* Besides the map before or after the write being read (TaskDecode before
\* or after RegisterHandlerWrite), the Go runtime may stop the process
\* ("fatal error: concurrent map read and map write").
TaskDecodeFatal(t) ==
    /\ ReadsHandlers(t)
    /\ mu = "reg"
    /\ serve' = "crashed"
    /\ tasks' = EmptyBag
    /\ UNCHANGED <<clientVars, transportVars, lockVars, registered, c2s, s2c, handlers, prompts,
                   resourceHandlers, toolHandlers, finished>>

\* handleMessage lines 198-213: decode the frame, check the version, look
\* the method up; an error Response is written at once.  No step of it
\* takes the lock.
TaskDecode(t) ==
    /\ t.pc = "decode"
    /\ LET f == t.msg
           reply(r) == /\ s2c' = Append(s2c, r)
                       /\ tasks' = End(t)
                       /\ finished' = [t EXCEPT !.pc = "done", !.written = Append(@, r)]
       IN  IF ~RequestDecodes(f)
           THEN reply(sendError(NullId, ParseErrorCode, <<"Parse error">>))
           ELSE IF f.jsonrpc # "2.0"
           THEN reply(sendError(RequestID(f), InvalidRequestCode, <<"Invalid Request">>))
           ELSE IF f.method \notin DOMAIN handlers
           THEN reply(sendError(RequestID(f), MethodNotFoundCode, <<"Method not found">>))
           ELSE /\ tasks' = Step(t, [t EXCEPT !.pc = "invoke", !.handler = handlers[f.method]])
                /\ UNCHANGED <<s2c, finished>>
    /\ UNCHANGED <<clientVars, transportVars, lockVars, registered, c2s, handlers, prompts, resourceHandlers, toolHandlers, serve>>

\* A look-up that reports no failure for a missing name.
NotFoundNil(what, name) == NoErr

\* The failure of a look-up: fmt.Errorf("prompt not found: %s", p.Name)
\* (line 277), and the same for "resource" (line 296) and "tool" (line 315).
NotFound(what, name) == Err(<<what, name>>)

\* A getResource that looks the inner name up among the tools.
SubRegistryTools(fn) == toolHandlers

\* The sub-registry a built-in handler looks the inner name up in:
\* s.resourceHandlers for getResource (line 293), s.toolHandlers for
\* executeTool (line 312).
SubRegistry(fn) == IF fn = "getResource" THEN resourceHandlers ELSE toolHandlers

\* The look-up a built-in handler makes under the lock (lines 256-319), or
\* the start of an application's HandlerFunc.  next: "respond" when the
\* handler has returned, "running" when application code runs.
HandlerCall(h, params) ==
    IF h.fn = "listPrompts" /\ h.wrap = "HandlerFunc"
    THEN [next |-> "respond", sub |-> NoHandler, result |-> PromptsMap, err |-> NoErr]
    ELSE IF h.fn \in {"getPrompt", "getResource", "executeTool"} /\ ParamsName(params).err.present
    THEN [next |-> "respond", sub |-> NoHandler, result |-> NilResult,
          err |-> ParamsName(params).err]
    ELSE IF h.fn = "getPrompt"
    THEN IF params.name \in DOMAIN prompts
         THEN [next |-> "respond", sub |-> NoHandler,
               result |-> Result(PromptJSON(params.name, prompts[params.name])),
               err |-> NoErr]
         ELSE [next |-> "respond", sub |-> NoHandler, result |-> NilResult,
               err |-> NotFound("prompt not found: ", params.name)]
    ELSE IF h.fn = "getResource"
    THEN IF params.name \in DOMAIN SubRegistry("getResource")
         THEN [next |-> "running", sub |-> SubRegistry("getResource")[params.name],
               result |-> NilResult, err |-> NoErr]
         ELSE [next |-> "respond", sub |-> NoHandler, result |-> NilResult,
               err |-> NotFound("resource not found: ", params.name)]
    ELSE IF h.fn = "executeTool"
    THEN IF params.name \in DOMAIN SubRegistry("executeTool")
         THEN [next |-> "running", sub |-> SubRegistry("executeTool")[params.name],
               result |-> NilResult, err |-> NoErr]
         ELSE [next |-> "respond", sub |-> NoHandler, result |-> NilResult,
               err |-> NotFound("tool not found: ", params.name)]
    ELSE [next |-> "running", sub |-> h, result |-> NilResult, err |-> NoErr]

\* The built-in handlers reach s.mu.Lock() (lines 258, 273, 292, 311); the
\* three that decode a name return before it when the decoding fails.
TakesLock(h, params) ==
    /\ h.wrap = "HandlerFunc"
    /\ h.fn \in BuiltIn
    /\ h.fn = "listPrompts" \/ ~ParamsName(params).err.present

\* A built-in handler that keeps the lock while the registered resource or
\* tool handler runs.
HandlerUnlockDeferred(fn) == IF fn \in {"getResource", "executeTool"} THEN "task" ELSE "none"

\* The holder of the lock once a built-in handler has made its look-up:
\* s.mu.Unlock() runs before handler.ServeJSONRPC (lines 294, 313), and the
\* deferred Unlock of the other two when they return (lines 259, 274).
HandlerUnlock(fn) == "none"

\* handleMessage line 215, up to the handler's look-up.
TaskInvoke(t) ==
    /\ t.pc = "invoke"
    /\ TakesLock(t.handler, t.msg.params) => mu = "none"
    /\ mu' = IF TakesLock(t.handler, t.msg.params) THEN HandlerUnlock(t.handler.fn) ELSE mu
    /\ LET c == HandlerCall(t.handler, t.msg.params)
       IN  tasks' = Step(t, [t EXCEPT !.pc = c.next, !.handler = c.sub, !.invoked = TRUE,
                                      !.result = c.result, !.err = c.err])
    /\ UNCHANGED <<clientVars, transportVars, reg, registered, c2s, s2c, handlers, prompts, resourceHandlers, toolHandlers, serve,
                   finished>>

\* The application's handler returns (ServeJSONRPC lines 50-86).
TaskReturn(t) ==
    /\ t.pc = "running"
    /\ LET r == ServeJSONRPC(t.handler, t.msg.params)
       IN  tasks' = Step(t, [t EXCEPT !.pc = "respond", !.result = r.result, !.err = r.err])
    /\ UNCHANGED <<clientVars, transportVars, lockVars, registered, c2s, s2c, handlers, prompts, resourceHandlers, toolHandlers, serve,
                   finished>>

\* resp.Result, _ = json.Marshal(result) (line 226): nothing on an error.
MarshalResult(result) ==
    IF result.k = "prompts" THEN PromptsJSON(prompts)
    ELSE IF result.k = "value" THEN result.val
    ELSE Absent

\* handleMessage lines 216-227: the Response for a handler's outcome.
HandlerResponse(id, result, err) ==
    IF err.present THEN ResponseFrame(id, Absent, RPCError(ApplicationErrorCode, err.text))
    ELSE IF result.k # "nil" THEN ResponseFrame(id, MarshalResult(result), NoError)
    ELSE ResponseFrame(id, Absent, NoError)

\* handleMessage lines 216-234: encode the Response and write it.
TaskRespond(t) ==
    /\ t.pc = "respond"
    /\ LET r == HandlerResponse(RequestID(t.msg), t.result, t.err)
       IN  /\ s2c' = Append(s2c, r)
           /\ tasks' = End(t)
           /\ finished' = [t EXCEPT !.pc = "done", !.written = Append(@, r)]
    /\ UNCHANGED <<clientVars, transportVars, lockVars, registered, c2s, handlers, prompts, resourceHandlers, toolHandlers, serve>>

----------------------------------------------------------------------------
(* The transports.                                                         *)

\* The goroutines that call WriteMessage on one transport.
Writers == 1..MaxCalls

\* The bytes on a stream, in tokens: w is the whole message of writer w,
\* -w a part of it, NewLine the terminator.
NewLine == 0

\* NewStdioTransport lines 26-31.  mu: the writer that holds the mutex (0:
\* none); out: what was written to the output; broken: a write to the output
\* has failed; w: the position of each writer in WriteMessage; in: the lines
\* the peer has written to the input; r: the goroutine calling ReadMessage;
\* closed: Close was called.
StdioNew ==
    [mu |-> 0, out |-> <<>>, broken |-> FALSE, w |-> [i \in Writers |-> "idle"],
     in |-> <<>>, r |-> "idle", closed |-> FALSE]

\* A WriteMessage that does not take the mutex.
StdioWriteUnlocked(w) ==
    /\ stdio.w[w] = "idle"
    /\ Len(stdio.out) < 2 * MaxInFlight
    /\ stdio' = [stdio EXCEPT !.w[w] = "message"]
    /\ UNCHANGED <<clientVars, c2s, s2c, serverVars, sse>>

\* StdioTransport.WriteMessage line 48: t.mu.Lock().
StdioWriteLock(w) ==
    /\ stdio.w[w] = "idle"
    /\ stdio.mu = 0
    /\ Len(stdio.out) < 2 * MaxInFlight
    /\ stdio' = [stdio EXCEPT !.mu = w, !.w[w] = "message"]
    /\ UNCHANGED <<clientVars, c2s, s2c, serverVars, sse>>

\* WriteMessage lines 50-53: t.writer.Write(message).  A Write that fails
\* may have written a part of the message, WriteMessage returns the error
\* and the deferred Unlock runs; an output that has failed keeps failing.
StdioWriteMessage(w) ==
    /\ stdio.w[w] = "message"
    /\ \/ /\ ~stdio.broken
          /\ stdio' = [stdio EXCEPT !.out = Append(@, w), !.w[w] = "newline"]
       \/ \E part \in {<<>>, <<-w>>} :
             /\ stdio.broken => part = <<>>
             /\ stdio' = [stdio EXCEPT !.out = @ \o part, !.broken = TRUE,
                                       !.mu = 0, !.w[w] = "idle"]
    /\ UNCHANGED <<clientVars, c2s, s2c, serverVars, sse>>

\* WriteMessage lines 54-55: t.writer.Write("\n"), and the deferred Unlock.
StdioWriteNewline(w) ==
    /\ stdio.w[w] = "newline"
    /\ \/ /\ ~stdio.broken
          /\ stdio' = [stdio EXCEPT !.out = Append(@, NewLine), !.mu = 0, !.w[w] = "idle"]
       \/ stdio' = [stdio EXCEPT !.broken = TRUE, !.mu = 0, !.w[w] = "idle"]
    /\ UNCHANGED <<clientVars, c2s, s2c, serverVars, sse>>

\* The peer writes a line to the input, or closes it ("eof").
StdioPeerWrite(line) ==
    /\ stdio.in = <<>>
    /\ stdio' = [stdio EXCEPT !.in = <<line>>]
    /\ UNCHANGED <<clientVars, c2s, s2c, serverVars, sse>>

\* A goroutine calls ReadMessage (line 35): it blocks in ReadString.
StdioReadCall ==
    /\ stdio.r # "blocked"
    /\ stdio' = [stdio EXCEPT !.r = "blocked"]
    /\ UNCHANGED <<clientVars, c2s, s2c, serverVars, sse>>

\* ReadMessage lines 35-43: ReadString returns a line, or io.EOF at the end
\* of the input; a line that is no JSON is an error.
StdioReadReturn ==
    /\ stdio.r = "blocked"
    /\ stdio.in # <<>>
    /\ stdio' = [stdio EXCEPT
                    !.r = IF Head(stdio.in) = "eof" THEN "eof"
                          ELSE IF Head(stdio.in) = "json" THEN "message"
                          ELSE "error",
                    !.in = IF Head(stdio.in) = "eof" THEN @ ELSE Tail(@)]
    /\ UNCHANGED <<clientVars, c2s, s2c, serverVars, sse>>

\* StdioTransport.Close lines 59-61: return nil.
StdioClose ==
    /\ ~stdio.closed
    /\ stdio' = [stdio EXCEPT !.closed = TRUE]
    /\ UNCHANGED <<clientVars, c2s, s2c, serverVars, sse>>

\* NewSSETransport lines 23-33.  loop: the position of the readLoop
\* goroutine; stop: t.stop is closed; r: the goroutine calling ReadMessage;
\* closer: the goroutine calling Close; body: the lines of the event stream
\* not read yet.
SSENew ==
    [loop |-> "connect", stop |-> FALSE, r |-> "idle", closer |-> "idle", body |-> <<>>]

\* readLoop lines 38-44: the GET succeeds or fails.
SSEConnect ==
    /\ sse.loop = "connect"
    /\ \E ok \in BOOLEAN : sse' = [sse EXCEPT !.loop = IF ok THEN "select" ELSE "ended"]
    /\ UNCHANGED <<clientVars, c2s, s2c, serverVars, stdio>>

\* readLoop lines 46-49: the select on t.stop.
SSESelect ==
    /\ sse.loop = "select"
    /\ sse' = [sse EXCEPT !.loop = IF sse.stop THEN "ended" ELSE "read"]
    /\ UNCHANGED <<clientVars, c2s, s2c, serverVars, stdio>>

\* readLoop lines 50-61: a read error ends the loop; a line "data: " with a
\* JSON text is sent on eventChan; any other line is skipped.
SSEReadLine ==
    /\ sse.loop = "read"
    /\ sse.body # <<>>
    /\ sse' = [sse EXCEPT
                  !.loop = IF Head(sse.body) = "eof" THEN "ended"
                           ELSE IF Head(sse.body) = "data" THEN "send"
                           ELSE "select",
                  !.body = IF Head(sse.body) = "eof" THEN @ ELSE Tail(@)]
    /\ UNCHANGED <<clientVars, c2s, s2c, serverVars, stdio>>

\* readLoop line 59 and ReadMessage lines 69-70: eventChan has no buffer, the
\* send and the receive happen together.
SSESend ==
    /\ sse.loop = "send"
    /\ sse.r = "blocked"
    /\ sse' = [sse EXCEPT !.loop = "select", !.r = "message"]
    /\ UNCHANGED <<clientVars, c2s, s2c, serverVars, stdio>>

\* The server of the event stream sends a line, or closes the stream.
SSEServerLine(line) ==
    /\ sse.body = <<>>
    /\ sse' = [sse EXCEPT !.body = <<line>>]
    /\ UNCHANGED <<clientVars, c2s, s2c, serverVars, stdio>>

\* A goroutine calls ReadMessage (line 68): it blocks in the select.
SSEReadCall ==
    /\ sse.r # "blocked"
    /\ sse' = [sse EXCEPT !.r = "blocked"]
    /\ UNCHANGED <<clientVars, c2s, s2c, serverVars, stdio>>

\* ReadMessage lines 71-72: t.stop is closed, io.EOF.
SSEReadStop ==
    /\ sse.r = "blocked"
    /\ sse.stop
    /\ sse' = [sse EXCEPT !.r = "eof"]
    /\ UNCHANGED <<clientVars, c2s, s2c, serverVars, stdio>>

\* SSETransport.Close line 91: close(t.stop).
SSEClose ==
    /\ sse.closer = "idle"
    /\ sse' = [sse EXCEPT !.stop = TRUE, !.closer = "wait"]
    /\ UNCHANGED <<clientVars, c2s, s2c, serverVars, stdio>>

\* Close lines 92-93: t.wg.Wait() returns when readLoop has ended.
SSECloseReturn ==
    /\ sse.closer = "wait"
    /\ sse.loop = "ended"
    /\ sse' = [sse EXCEPT !.closer = "done"]
    /\ UNCHANGED <<clientVars, c2s, s2c, serverVars, stdio>>

\* The transports as their constructors leave them.
TransportInit ==
    /\ stdio = StdioNew
    /\ sse = SSENew

----------------------------------------------------------------------------
(* The client against an arbitrary peer.                                   *)

\* The arguments the callers pass to CallRaw.
ClientInputs ==
    { [method |-> "listPrompts", params |-> GoNil],
      [method |-> "getResource", params |-> Unencodable] }

\* The methods of the notifications a peer sends, and those among them the
\* application registers a handler for.
NotificationMethods == {"progress", "log"}

HandledMethods == {"progress"}

SomeResult == NumVal("double", 2)

SomeError == RPCError(-32000, <<"failed">>)

\* The frames a peer may send to the client.
PeerFrames ==
    { ResponseFrame(NumId(i), SomeResult, NoError) : i \in 0..MaxCalls }
    \cup { ResponseFrame(NumId(0), Absent, SomeError) }
    \cup { ResponseFrame(FracId(0), SomeResult, NoError),
           ResponseFrame(StrId, SomeResult, NoError),
           ResponseFrame(NullId, Absent, RPCError(-32700, <<"Parse error">>)),
           Frame(TRUE, NumId(0), "2.0", "", NoParams, Absent, NoError, "error"),
           NotAnObject }
    \cup { NotificationFrame(m, NoParams) : m \in NotificationMethods }

\* The peer writes a frame to the client's stream (closed once the client's
\* process has ended).
PeerSend(f) ==
    /\ Alive
    /\ s2c = <<>>
    /\ s2c' = <<f>>
    /\ UNCHANGED <<clientVars, c2s, serverVars, transportVars>>

InitClient ==
    /\ ClientInit
    /\ ServerInit
    /\ c2s = <<>>
    /\ s2c = <<>>
    /\ TransportInit

NextClient ==
    \/ \E k \in Calls, in \in ClientInputs : CallRawRegister(k, in.method, in.params)
    \/ \E k \in Calls : CallRawEncodeFail(k)
    \/ \E k \in Calls : CallRawWrite(k)
    \/ \E k \in Calls : CallRawWriteFail(k)
    \/ \E k \in Calls : CallRawWriteFailed(k)
    \/ \E k \in Calls : CallRawReceive(k)
    \/ \E m \in HandledMethods : RegisterNotificationHandler(m)
    \/ ReadLoopRead
    \/ ReadLoopDeliver
    \/ \E f \in PeerFrames : PeerSend(f)

SpecClient == InitClient /\ [][NextClient]_vars

----------------------------------------------------------------------------
(* The server against an arbitrary peer.                                   *)

\* The frames a peer may send to the server.
ServerFrames ==
    { RequestFrame(BigId(5), "getPrompt", ObjParams("missing", NoInner)),
      RequestFrame(NumId(2), "getResource", ObjParams("double", InnerObj(1))),
      RequestFrame(StrId, "empty", NoParams),
      RequestFrame(NumId(3), "opaque", NoParams),
      RequestFrame(BigId(1), "listPrompts", NoParams),
      RequestFrame(BigId(7), "noSuchMethod", NoParams),
      Frame(TRUE, BigId(3), "1.0", "listPrompts", NoParams, Absent, NoError, "none"),
      Frame(TRUE, NumId(5), "2.0", "", NoParams, Absent, NoError, "method"),
      NotJSON,
      EndOfStream,
      NotificationFrame("listPrompts", NoParams) }

\* Frames sent to the server and not answered yet.
InFlight == Len(c2s) + BagCardinality(tasks) + Len(s2c)

\* The peer writes a frame to the server's stream.
ServerPeerSend(f) ==
    /\ c2s = <<>>
    /\ InFlight < MaxInFlight
    /\ c2s' = Append(c2s, f)
    /\ UNCHANGED <<clientVars, s2c, serverVars, transportVars>>

\* The peer reads a frame the server wrote.
ServerPeerReceive ==
    /\ s2c # <<>>
    /\ s2c' = Tail(s2c)
    /\ UNCHANGED <<clientVars, c2s, serverVars, transportVars>>

\* The application configures its server as mcp_test.go does, one
\* registration after the other; Serve runs in a goroutine of its own.
AppRegister ==
    \/ /\ "double" \notin DOMAIN resourceHandlers
       /\ RegisterResource("double", NewResource("double"))
    \/ /\ "double" \in DOMAIN resourceHandlers
       /\ "test" \notin DOMAIN prompts
       /\ \/ RegisterPrompt("test", "Test {{value}}")
          \/ RegisterPromptFatal("test", "Test {{value}}")
    \/ /\ "test" \in DOMAIN prompts
       /\ "double" \notin DOMAIN toolHandlers
       /\ RegisterTool("double", NewTool("double"))
    \/ /\ "double" \in DOMAIN toolHandlers
       /\ "empty" \notin DOMAIN handlers
       /\ RegisterHandler("empty", HandlerFunc("nil"))
    \/ /\ "empty" \in DOMAIN handlers
       /\ "opaque" \notin DOMAIN handlers
       /\ RegisterHandler("opaque", HandlerFunc("unencodable"))

ServerNext ==
    \/ ServeStart
    \/ ServeRead
    \/ \E t \in Running : TaskDecode(t)
    \/ \E t \in Running : TaskInvoke(t)
    \/ \E t \in Running : TaskReturn(t)
    \/ \E t \in Running : TaskRespond(t)

InitServer ==
    /\ ClientInit
    /\ ServerInit
    /\ c2s = <<>>
    /\ s2c = <<>>
    /\ TransportInit

NextServer ==
    \/ AppRegister
    \/ ServerNext
    \/ \E f \in ServerFrames : ServerPeerSend(f)
    \/ ServerPeerReceive

SpecServer == InitServer /\ [][NextServer]_vars

----------------------------------------------------------------------------
(* The client connected to the server.                                     *)

\* The arguments the callers pass to CallRaw.
CallInputs ==
    { [method |-> "listPrompts", params |-> GoNil],
      [method |-> "getResource",
       params |-> GoValue(ObjParams("double", InnerObj(5)))],
      [method |-> "getPrompt", params |-> GoValue(ObjParams("missing", NoInner))],
      [method |-> "getResource", params |-> Unencodable] }

ClientNext ==
    \/ \E k \in Calls : CallRawEncodeFail(k)
    \/ \E k \in Calls : CallRawWrite(k)
    \/ \E k \in Calls : CallRawWriteFail(k)
    \/ \E k \in Calls : CallRawWriteFailed(k)
    \/ \E k \in Calls : CallRawReceive(k)
    \/ ReadLoopRead
    \/ ReadLoopDeliver

Init ==
    /\ ClientInit
    /\ ServerInit
    /\ c2s = <<>>
    /\ s2c = <<>>
    /\ TransportInit

Next ==
    \/ \E k \in Calls, in \in CallInputs : CallRawRegister(k, in.method, in.params)
    \/ ClientNext
    \/ AppRegister
    \/ ServerNext

Spec == Init /\ [][Next]_vars

----------------------------------------------------------------------------
(* The client connected to a server that was configured before Serve, as   *)
(* mcp_test.go does, with every goroutine scheduled fairly.                 *)

\* The server after NewServer and the registrations of AppRegister.
ConfiguredInit ==
    /\ handlers = MapPut(MapPut([m \in BuiltIn |-> HandlerFunc(m)],
                                "empty", HandlerFunc("nil")),
                         "opaque", HandlerFunc("unencodable"))
    /\ prompts = MapPut(EmptyMap, "test", "Test {{value}}")
    /\ resourceHandlers = MapPut(EmptyMap, "double", NewResource("double"))
    /\ toolHandlers = MapPut(EmptyMap, "double", NewTool("double"))
    /\ serve = "idle"
    /\ tasks = EmptyBag
    /\ finished = NoTask
    /\ registered = << <<"test", "Test {{value}}">> >>
    /\ mu = "none"
    /\ reg = "idle"

LiveInit ==
    /\ ClientInit
    /\ ConfiguredInit
    /\ c2s = <<>>
    /\ s2c = <<>>
    /\ TransportInit

LiveNext ==
    \/ \E k \in Calls, in \in CallInputs : CallRawRegister(k, in.method, in.params)
    \/ ClientNext
    \/ ServerNext

\* Every goroutine that can take a step is scheduled: the callers, the
\* client read loop, Serve and the handleMessage goroutines.
Fairness ==
    /\ \A k \in Calls : WF_vars(CallRawEncodeFail(k) \/ CallRawWrite(k) \/ CallRawWriteFail(k)
                                \/ CallRawWriteFailed(k) \/ CallRawReceive(k))
    /\ WF_vars(ReadLoopRead)
    /\ WF_vars(ReadLoopDeliver)
    /\ WF_vars(ServeStart)
    /\ WF_vars(ServeRead)
    /\ WF_vars(\E t \in Running : TaskDecode(t))
    /\ WF_vars(\E t \in Running : TaskInvoke(t))
    /\ WF_vars(\E t \in Running : TaskReturn(t))
    /\ WF_vars(\E t \in Running : TaskRespond(t))

LiveSpec == LiveInit /\ [][LiveNext]_vars /\ Fairness

----------------------------------------------------------------------------
(* The client, closed by its application, against an arbitrary peer.       *)

\* The frames the peer may send: the Responses to the calls, a notification
\* and a line that is no JSON.
ClosePeerFrames ==
    { ResponseFrame(NumId(i), SomeResult, NoError) : i \in 0..(MaxCalls - 1) }
    \cup { NotificationFrame("log", NoParams), NotJSON }

InitClose ==
    /\ ClientStart("select")
    /\ ServerInit
    /\ c2s = <<>>
    /\ s2c = <<>>
    /\ TransportInit

NextClose ==
    \/ \E k \in Calls, in \in ClientInputs : CallRawRegister(k, in.method, in.params)
    \/ ClientNext
    \/ ReadLoopSelect
    \/ CloseSignal
    \/ CloseReturn
    \/ \E f \in ClosePeerFrames : PeerSend(f)

\* The goroutines of the client are scheduled; the peer owes no frame.
FairnessClose ==
    /\ \A k \in Calls : WF_vars(CallRawEncodeFail(k) \/ CallRawWrite(k) \/ CallRawWriteFail(k)
                                \/ CallRawWriteFailed(k) \/ CallRawReceive(k))
    /\ WF_vars(ReadLoopSelect)
    /\ WF_vars(ReadLoopRead)
    /\ WF_vars(ReadLoopDeliver)
    /\ WF_vars(CloseReturn)

SpecClose == InitClose /\ [][NextClose]_vars /\ FairnessClose

----------------------------------------------------------------------------
(* The configured server against a peer that pipelines its requests: it   *)
(* sends them in order and reads no Response.                              *)

\* The requests in the order the peer sends them.  The first one reaches the
\* application's resource handler, which may take any time or never return;
\* the later ones reach built-in handlers.
Pipeline ==
    [i \in 1..(MaxInFlight + 1) |->
        IF i = 1
        THEN RequestFrame(NumId(1), "getResource", ObjParams("double", InnerObj(1)))
        ELSE IF i % 2 = 0
        THEN RequestFrame(NumId(i), "listPrompts", NoParams)
        ELSE RequestFrame(NumId(i), "getPrompt", ObjParams("missing", NoInner))]

\* The server has written a Response with the identifier of request i.
Answered(i) == \E j \in DOMAIN s2c : s2c[j].id = Pipeline[i].id

\* Request i is on the wire, in a handleMessage goroutine, or answered.
Sent(i) ==
    \/ \E j \in DOMAIN c2s : c2s[j] = Pipeline[i]
    \/ \E t \in Running : t.msg = Pipeline[i]
    \/ Answered(i)

\* The peer writes its next request.
PipelineSend ==
    /\ \E i \in DOMAIN Pipeline :
          /\ ~Sent(i)
          /\ \A j \in 1..(i - 1) : Sent(j)
          /\ c2s' = Append(c2s, Pipeline[i])
    /\ UNCHANGED <<clientVars, s2c, serverVars, transportVars>>

InitPipeline ==
    /\ ClientInit
    /\ ConfiguredInit
    /\ c2s = <<>>
    /\ s2c = <<>>
    /\ TransportInit

NextPipeline ==
    \/ ServerNext
    \/ PipelineSend

\* Serve and the handleMessage goroutines are scheduled; the application's
\* handler owes no return, and the peer no request.
FairnessPipeline ==
    /\ WF_vars(ServeStart)
    /\ WF_vars(ServeRead)
    /\ WF_vars(\E t \in Running : TaskDecode(t))
    /\ WF_vars(\E t \in Running : TaskInvoke(t))
    /\ WF_vars(\E t \in Running : TaskRespond(t))

SpecPipeline == InitPipeline /\ [][NextPipeline]_vars /\ FairnessPipeline

----------------------------------------------------------------------------
(* The configured server against a peer that calls the built-in methods    *)
(* with registered and unregistered inner names.                           *)

\* The requests the peer may send.
RegistryFrames ==
    { RequestFrame(NumId(1), "getResource", ObjParams("double", InnerObj(1))),
      RequestFrame(NumId(2), "getResource", ObjParams("double", NoInner)),
      RequestFrame(NumId(3), "executeTool", ObjParams("double", InnerObj(1))),
      RequestFrame(NumId(4), "executeTool", ObjParams("double", NoInner)),
      RequestFrame(NumId(5), "getResource", ObjParams("missing", InnerObj(1))),
      RequestFrame(NumId(6), "executeTool", ObjParams("missing", InnerObj(1))),
      RequestFrame(NumId(7), "getPrompt", ObjParams("missing", NoInner)),
      RequestFrame(NumId(8), "getPrompt", ObjParams("test", NoInner)) }

NextRegistry ==
    \/ ServerNext
    \/ \E f \in RegistryFrames : ServerPeerSend(f)
    \/ ServerPeerReceive

SpecRegistry == LiveInit /\ [][NextRegistry]_vars

----------------------------------------------------------------------------
(* A server whose application registers any prompts, then serves.          *)

PromptNames == {"test", "other"}

PromptTemplates == {"Test {{value}}", "Other"}

\* The requests the peer may send.
PromptFrames ==
    { RequestFrame(NumId(1), "listPrompts", NoParams) }
    \cup { RequestFrame(NumId(2), "getPrompt", ObjParams(n, NoInner)) : n \in PromptNames }

\* The application registers a prompt before it calls Serve.
PromptRegister(name, template) ==
    /\ serve = "idle"
    /\ Len(registered) < MaxRegistrations
    /\ RegisterPrompt(name, template)

NextPrompts ==
    \/ \E n \in PromptNames, tpl \in PromptTemplates : PromptRegister(n, tpl)
    \/ ServeStart
    \/ ServeRead
    \/ \E t \in Running : TaskDecode(t)
    \/ \E t \in Running : TaskInvoke(t)
    \/ \E t \in Running : TaskRespond(t)
    \/ \E f \in PromptFrames : ServerPeerSend(f)
    \/ ServerPeerReceive

SpecPrompts == Init /\ [][NextPrompts]_vars

----------------------------------------------------------------------------
(* A StdioTransport used by concurrent writers, a reader and a closer.     *)

\* What the peer may do to the input: a line with a JSON text, a line that
\* is no JSON, the end of the input.
StdioLines == {"json", "garbage", "eof"}

NextStdio ==
    \/ \E w \in Writers : StdioWriteLock(w)
    \/ \E w \in Writers : StdioWriteMessage(w)
    \/ \E w \in Writers : StdioWriteNewline(w)
    \/ \E line \in StdioLines : StdioPeerWrite(line)
    \/ StdioReadCall
    \/ StdioReadReturn
    \/ StdioClose

\* The goroutines inside the transport are scheduled; the peer owes no
\* line, and nobody owes a call.
FairnessStdio ==
    /\ \A w \in Writers : WF_vars(StdioWriteMessage(w) \/ StdioWriteNewline(w))
    /\ WF_vars(StdioReadReturn)

SpecStdio == Init /\ [][NextStdio]_vars /\ FairnessStdio

----------------------------------------------------------------------------
(* An SSETransport with its readLoop, a reader and a closer.               *)

\* The lines of the event stream: an event with a JSON text, any other
\* line, the end of the stream or a read error.
SSELines == {"data", "other", "eof"}

NextSSE ==
    \/ SSEConnect
    \/ SSESelect
    \/ SSEReadLine
    \/ SSESend
    \/ \E line \in SSELines : SSEServerLine(line)
    \/ SSEReadCall
    \/ SSEReadStop
    \/ SSEClose
    \/ SSECloseReturn

\* The goroutines inside the transport are scheduled; the server of the
\* event stream owes no line, and nobody owes a call.
FairnessSSE ==
    /\ WF_vars(SSEConnect)
    /\ WF_vars(SSESelect)
    /\ WF_vars(SSEReadLine)
    /\ WF_vars(SSESend)
    /\ WF_vars(SSEReadStop)
    /\ WF_vars(SSECloseReturn)

SpecSSE == Init /\ [][NextSSE]_vars /\ FairnessSSE

----------------------------------------------------------------------------
(* The configured server while a goroutine of the application registers a  *)
(* method handler.                                                         *)

\* The requests the peer may send: one that reaches the application's
\* resource handler, one for the method being registered, one that reaches
\* a built-in handler.
LockFrames ==
    { RequestFrame(NumId(1), "getResource", ObjParams("double", InnerObj(1))),
      RequestFrame(NumId(2), "late", NoParams),
      RequestFrame(NumId(3), "listPrompts", NoParams) }

NextLock ==
    \/ RegisterHandlerCall
    \/ RegisterHandlerLock
    \/ RegisterHandlerWrite("late", HandlerFunc("nil"))
    \/ ServerNext
    \/ \E t \in Running : TaskDecodeFatal(t)
    \/ \E f \in LockFrames : ServerPeerSend(f)
    \/ ServerPeerReceive

\* Serve, the handleMessage goroutines and the goroutine inside
\* RegisterHandler are scheduled; the application's handler owes no return,
\* the application no call and the peer no request.
FairnessLock ==
    /\ WF_vars(ServeStart)
    /\ WF_vars(ServeRead)
    /\ WF_vars(\E t \in Running : TaskDecode(t))
    /\ WF_vars(\E t \in Running : TaskInvoke(t))
    /\ WF_vars(\E t \in Running : TaskRespond(t))
    /\ WF_vars(RegisterHandlerLock)
    /\ WF_vars(RegisterHandlerWrite("late", HandlerFunc("nil")))

SpecLock == LiveInit /\ [][NextLock]_vars /\ FairnessLock

----------------------------------------------------------------------------
(* The client against a peer that may end the stream.                      *)

\* The frames the peer may send: the Responses to the calls, the end of the
\* stream and a line on which ReadMessage fails.
EndPeerFrames ==
    { ResponseFrame(NumId(i), SomeResult, NoError) : i \in 0..(MaxCalls - 1) }
    \cup { EndOfStream, NotJSON }

NextEnd ==
    \/ \E k \in Calls, in \in ClientInputs : CallRawRegister(k, in.method, in.params)
    \/ ClientNext
    \/ \E f \in EndPeerFrames : PeerSend(f)

SpecEnd == InitClient /\ [][NextEnd]_vars

----------------------------------------------------------------------------
(* The configured server against a peer that sends requests and then ends  *)
(* the stream, or sends a line on which ReadMessage fails.                 *)

ShutdownFrames ==
    { RequestFrame(NumId(1), "getResource", ObjParams("double", InnerObj(1))),
      RequestFrame(NumId(2), "listPrompts", NoParams),
      RequestFrame(NumId(3), "noSuchMethod", NoParams),
      EndOfStream,
      NotJSON }

NextShutdown ==
    \/ ServerNext
    \/ \E f \in ShutdownFrames : ServerPeerSend(f)
    \/ ServerPeerReceive

\* Scheduled as against the pipelining peer: Serve and the handleMessage
\* goroutines run, the application's handler owes no return.
SpecShutdown == LiveInit /\ [][NextShutdown]_vars /\ FairnessPipeline

----------------------------------------------------------------------------
(* Properties of the client.                                               *)

\* The step of the read loop that takes the first frame off the stream.
ReadStep == rl.pc = "read" /\ s2c # <<>> /\ s2c' = Tail(s2c)

\* The calls that hold an identifier: registered and not returned.
Pending(k) == calls[k].pc \in {"encode", "writeFailed", "wait"}

\* CallRaw returned after receiving from its channel.
Received(k) == calls[k].pc = "done" /\ calls[k].ret.err.kind \in {"nil", "errorString"}

\* The frame's identifier is the identifier of a live pending call.
MatchesPending(f) == f.id.t = "num" /\ ~f.id.frac /\ f.id.n \in DOMAIN pendingRequests

\* C2: at most one pending call exists per identifier: no two calls in
\* flight hold the same identifier, every entry of the map belongs to the
\* call that allocated its key, and the identifier the next call will be
\* given is not the key of a live entry.
C2_UniqueIdentifiers ==
    /\ \A j, k \in Calls :
          (j # k /\ Pending(j) /\ Pending(k)) => calls[j].id # calls[k].id
    /\ \A i \in DOMAIN pendingRequests :
          Pending(pendingRequests[i]) /\ calls[pendingRequests[i]].id = i
    /\ nextID \notin DOMAIN pendingRequests

\* C2: two calls are in flight at once, each with its own entry.
C2_Witness ==
    /\ \A k \in {1, 2} : calls[k].pc = "wait" /\ calls[k].id \in DOMAIN pendingRequests
    /\ calls[1].id # calls[2].id

\* C3: the delivery slot of a call is filled at most once, and a Response
\* whose identifier matches no live pending call is discarded: the map is
\* unchanged, no caller is resolved, the read loop goes on to the next frame.
C3_FilledOnceElseDiscarded ==
    [][/\ \A k \in Calls : Len(delivered'[k]) <= 1
       /\ (ReadStep /\ Head(s2c).obj /\ Head(s2c).hasId /\ Head(s2c).method = ""
             /\ ~MatchesPending(Head(s2c)))
          => (/\ pendingRequests' = pendingRequests
              /\ delivered' = delivered
              /\ calls' = calls
              /\ rl'.pc = "read")]_vars

\* The text of an error value holds the token.
Carries(err, token) == \E i \in DOMAIN err.text : err.text[i] = token

\* C6: a call that received a Response with an error fails with an error
\* that carries the remote code and the remote message; a call that received
\* a Response without an error returns its result and no failure.
C6_CodeAndMessage ==
    \A k \in Calls :
        Received(k) =>
            IF calls[k].resp.err.present
            THEN /\ calls[k].ret.err.kind # "nil"
                 /\ Carries(calls[k].ret.err, ToString(calls[k].resp.err.code))
                 /\ \A i \in DOMAIN calls[k].resp.err.message :
                        Carries(calls[k].ret.err, calls[k].resp.err.message[i])
            ELSE calls[k].ret = [result |-> calls[k].resp.result, err |-> NilErr]

\* C7: a call whose encoding or write fails returns that failure without
\* having waited for or received a response and after at most one write;
\* when it returns the map holds no entry for its identifier, and every
\* other entry is as it was.
C7_FailedSend ==
    [][\A k \in Calls :
          (calls[k].pc \in {"encode", "writeFailed"} /\ calls'[k].pc = "done")
          => (/\ calls'[k].ret.err.kind \in {"marshal", "transport"}
              /\ calls'[k].ret.result = Absent
              /\ calls'[k].resp = ZeroResponse
              /\ calls'[k].writes <= 1
              /\ calls[k].params.k = "unencodable" => calls'[k].writes = 0
              /\ calls[k].id \notin DOMAIN pendingRequests'
              /\ \A i \in DOMAIN pendingRequests \ {calls[k].id} :
                    i \in DOMAIN pendingRequests' /\ pendingRequests'[i] = pendingRequests[i]
              /\ DOMAIN pendingRequests' \subseteq DOMAIN pendingRequests)]_vars

\* C7: a call has returned a write failure while another call is in flight
\* with its entry in place.
C7_Witness ==
    /\ calls[1].pc = "done" /\ calls[1].ret.err = WriteErr
    /\ calls[2].pc = "wait" /\ calls[2].id \in DOMAIN pendingRequests
    /\ calls[1].id \notin DOMAIN pendingRequests

\* C8: a frame with an identifier of any shape that matches no pending call
\* is discarded and the read loop keeps running.
C8_AnyIdentifierDiscarded ==
    [][(ReadStep /\ Head(s2c).obj /\ Head(s2c).hasId /\ ~MatchesPending(Head(s2c)))
       => (/\ rl'.pc = "read"
           /\ UNCHANGED <<pendingRequests, chans, c2s>>)]_vars

\* C9: a frame without an identifier whose method has a registered handler
\* makes the read loop invoke that handler with the method and the params.
C9_HandlerInvoked ==
    [][(ReadStep /\ Head(s2c).obj /\ ~Head(s2c).hasId
          /\ Head(s2c).method \in notificationHandlers)
       => notified' = Append(notified, <<Head(s2c).method, Head(s2c).params>>)]_vars

\* C10: a frame without an identifier whose method has no registered handler
\* is dropped: nothing is written, no pending call is resolved or removed,
\* no handler runs, and the read loop is ready for the next frame.
C10_UnhandledDropped ==
    [][(ReadStep /\ Head(s2c).obj /\ ~Head(s2c).hasId
          /\ Head(s2c).method \notin notificationHandlers)
       => (/\ rl'.pc = "read"
           /\ UNCHANGED <<c2s, pendingRequests, chans, calls, delivered, notified>>)]_vars

\* C10: the read loop has read an unhandled notification while a call was
\* pending; the call is still pending and the loop is reading.
C10_Witness ==
    /\ rl.pc = "read"
    /\ rl.frame = NotificationFrame("log", NoParams)
    /\ "log" \notin notificationHandlers
    /\ \E k \in Calls : calls[k].pc = "wait" /\ calls[k].id \in DOMAIN pendingRequests

----------------------------------------------------------------------------
(* Properties of the server, and of the client connected to it.            *)

\* C4: a handleMessage goroutine that ended, for a message that carries an
\* identifier and went through the version check, the method look-up or a
\* handler, has written exactly one Response, with the message's identifier.
C4_OneResponseSameIdentifier ==
    (finished.pc = "done" /\ finished.msg.hasId /\ RequestDecodes(finished.msg))
    => (/\ Len(finished.written) = 1
        /\ finished.written[1].id = finished.msg.id)

\* The outcome the server gives for a call's method and params.
Answers(c) ==
    IF c.method = "listPrompts"
    THEN c.ret.err = NilErr /\ c.ret.result.k = "prompts"
    ELSE IF c.method = "getResource"
    THEN \/ c.ret = [result |-> NumVal("double", 10), err |-> NilErr]
         \/ c.ret = [result |-> Absent, err |-> RpcErrorf(<<"resource not found: ", "double">>)]
    ELSE c.ret = [result |-> Absent, err |-> RpcErrorf(<<"prompt not found: ", "missing">>)]

\* C1: a call that returned after receiving was sent exactly one Response,
\* the one whose identifier is the identifier the call allocated, and it
\* returns that Response's result or error, which answers its own request.
C1_OwnResponse ==
    \A k \in Calls :
        Received(k) =>
            /\ Len(delivered[k]) = 1
            /\ delivered[k][1].id = NumId(calls[k].id)
            /\ calls[k].ret =
                  CallRawResult(responseChan(delivered[k][1].result, delivered[k][1].error))
            /\ Answers(calls[k])

\* C1: the second call has returned its own result while the handler of the
\* first, a call of another method, has yet to respond.
C1_Witness ==
    /\ Received(2) /\ calls[1].pc = "wait" /\ delivered[1] = <<>>
    /\ calls[1].method # calls[2].method
    /\ \E t \in Running : t.pc = "respond" /\ t.msg.id = NumId(calls[1].id)

\* C5: with every goroutine scheduled, every CallRaw invocation that has
\* started eventually returns.
C5_EveryCallReturns ==
    \A k \in Calls : (calls[k].pc # "idle") ~> (calls[k].pc = "done")

\* C5: concurrent callers have all returned with the outcome of a Response.
C5_Witness == \A k \in Calls : Received(k) /\ Len(delivered[k]) = 1

----------------------------------------------------------------------------
(* Properties of Client.Close.                                             *)

\* C11: once Close has signalled the read loop, the transport's Close is
\* eventually invoked and Close returns.
C11_CloseReturns == (closer = "wait") ~> (closer = "done" /\ closed)

\* C12: Close does not notify pending calls.  No step of Close changes the
\* map, a channel or a caller; a caller leaves its wait only with the
\* payload of a Response delivered on its channel; and for as long as none
\* was delivered its entry is in the map.
C12_CloseLeavesCallsPending ==
    [][/\ (closer' # closer) => UNCHANGED <<pendingRequests, chans, calls, delivered>>
       /\ \A k \in Calls :
             /\ (calls[k].pc = "wait" /\ calls'[k].pc # "wait")
                => (/\ delivered[k] # <<>>
                    /\ calls'[k].resp = responseChan(delivered[k][1].result,
                                                     delivered[k][1].error))
             /\ (calls'[k].pc = "wait" /\ delivered'[k] = <<>>
                   /\ ~(rl'.pc = "deliver" /\ rl'.ch = k))
                => (calls'[k].id \in DOMAIN pendingRequests'
                    /\ pendingRequests'[calls'[k].id] = k)]_vars

\* C12: Close has returned and a caller is still blocked, its entry in the
\* map and nothing delivered to it.
C12_Witness ==
    /\ closer = "done"
    /\ \E k \in Calls : /\ calls[k].pc = "wait"
                        /\ delivered[k] = <<>>
                        /\ calls[k].id \in DOMAIN pendingRequests

\* C13: the serve loop does not wait for a dispatch: every request sent
\* after the first one is read, dispatched and answered, whether or not the
\* handler of the first request ever returns, and while the stream holds a
\* frame the loop can read it whatever goroutines are running.
C13_ServeNeverWaits ==
    /\ \A i \in 2..Len(Pipeline) : Sent(i) ~> Answered(i)
    /\ []((serve = "loop" /\ c2s # <<>>) => ENABLED ServeRead)

\* C13: the Response to request 2 is written while the handler of request 1
\* is still running.
C13_Witness ==
    /\ Answered(2)
    /\ ~Answered(1)
    /\ \E t \in Running : t.msg = Pipeline[1] /\ t.pc = "running"

\* Serve reads the frame at the head of the stream.
ServeStep == serve = "loop" /\ c2s # <<>> /\ c2s' = Tail(c2s)

\* The handler bound to the method of frame f fails on its params.
HandlerFails(f) ==
    /\ f.method \in DOMAIN handlers
    /\ LET c == HandlerCall(handlers[f.method], f.params)
       IN  \/ c.err.present
           \/ c.next = "running" /\ ServeJSONRPC(c.sub, f.params).err.present

\* Frame f is of one of the four error kinds of the server.
ErrorKind(f) ==
    /\ f # EndOfStream
    /\ \/ ~RequestDecodes(f)
       \/ f.jsonrpc # "2.0"
       \/ f.method \notin DOMAIN handlers
       \/ HandlerFails(f)

\* The identifier a Response to frame f is to carry.
IdentifierOf(f) == IF f.hasId THEN f.id ELSE NullId

\* C14: a frame of any of the four error kinds (malformed payload, wrong
\* version, unknown method, handler failure) does not end the serve loop:
\* when Serve has read it, Serve has not returned and has dispatched it, so
\* that the frames that follow are read as well.
C14_ErrorsKeepServing ==
    [][(ServeStep /\ ErrorKind(Head(c2s)))
       => (/\ serve' = "loop"
           /\ NewTask(Head(c2s)) \in BagToSet(tasks'))]_vars

\* C15: a frame that is no JSON, and a frame that is JSON but no Request,
\* is dispatched when Serve reads it, and the goroutine dispatched for it
\* writes one Response with error code -32700 and a null identifier.
C15_ParseErrorResponse ==
    [][/\ (ServeStep /\ ~RequestDecodes(Head(c2s)) /\ Head(c2s) # EndOfStream)
          => NewTask(Head(c2s)) \in BagToSet(tasks')
       /\ (finished' # finished /\ ~RequestDecodes(finished'.msg))
          => (/\ Len(finished'.written) = 1
              /\ finished'.written[1].error.present
              /\ finished'.written[1].error.code = ParseErrorCode
              /\ finished'.written[1].id = NullId)]_vars

\* C16: a goroutine that ended, for a Request with version "2.0" whose
\* method has no bound handler, has written one Response with error code
\* -32601 and the Request's identifier, and has invoked no handler.
C16_MethodNotFound ==
    (/\ finished.pc = "done"
     /\ RequestDecodes(finished.msg)
     /\ finished.msg.jsonrpc = "2.0"
     /\ finished.msg.method \notin DOMAIN handlers)
    => (/\ Len(finished.written) = 1
        /\ finished.written[1].error.present
        /\ finished.written[1].error.code = MethodNotFoundCode
        /\ finished.written[1].id = IdentifierOf(finished.msg)
        /\ ~finished.invoked)

\* C17: a goroutine that ended, for a decodable Request whose version is
\* not "2.0", has written one Response with error code -32600 and the
\* Request's original identifier, and has invoked no handler, also when
\* the method is bound.
C17_InvalidRequest ==
    (/\ finished.pc = "done"
     /\ RequestDecodes(finished.msg)
     /\ finished.msg.jsonrpc # "2.0")
    => (/\ Len(finished.written) = 1
        /\ finished.written[1].error.present
        /\ finished.written[1].error.code = InvalidRequestCode
        /\ finished.written[1].id = IdentifierOf(finished.msg)
        /\ ~finished.invoked)

\* C18: a goroutine that ended after its handler returned a failure has
\* written one Response with error code -32000, the failure's text as the
\* message, the Request's identifier and no result.
C18_HandlerFailure ==
    (finished.pc = "done" /\ finished.err.present)
    => finished.written =
          << ResponseFrame(IdentifierOf(finished.msg), Absent,
                           RPCError(ApplicationErrorCode, finished.err.text)) >>

\* C19: every Response the server has written carries a result or an
\* error, and not both, whatever the handler returned.
C19_ResultXorError ==
    finished.pc = "done"
    => \A j \in DOMAIN finished.written :
          (finished.written[j].result # Absent) # finished.written[j].error.present

\* C20: a goroutine that ended, for a message with a method and without an
\* identifier, has invoked no handler and has written no Response.
C20_NotificationIgnored ==
    (/\ finished.pc = "done"
     /\ RequestDecodes(finished.msg)
     /\ ~finished.msg.hasId
     /\ finished.msg.method # "")
    => (finished.written = <<>> /\ ~finished.invoked)

\* C21: Serve returns nil exactly when the read meets the end of the
\* stream, and returns the failure when the read fails otherwise; a Serve
\* that has returned stays returned and reads no further frame.
C21_ServeReturns ==
    [][/\ ServeStep
          => serve' = (IF Head(c2s).bad = "eof" THEN "returned nil"
                       ELSE IF Head(c2s).bad = "json" THEN "returned error"
                       ELSE "loop")
       /\ serve \in {"returned nil", "returned error"}
          => (serve' \in {serve, "crashed"} /\ Len(c2s') >= Len(c2s))]_vars

\* C21: Serve has returned nil at the end of the stream while a goroutine
\* it started is still running.
C21_Witness == serve = "returned nil" /\ tasks # EmptyBag

C23_CloseUnblocksRead ==
    (stdio.closed /\ stdio.r = "blocked") ~> (stdio.r # "blocked")

\* C24: on the event-stream transport a ReadMessage does not stay blocked
\* once the readLoop has ended or the transport was stopped by Close.
C24_ReadSurfacesEnd ==
    (sse.r = "blocked" /\ (sse.loop = "ended" \/ sse.stop)) ~> (sse.r # "blocked")

\* C25: a registration never writes one of the server's maps while a
\* dispatch goroutine reads or iterates that map outside the server lock:
\* while a goroutine holds the prompts map that listPrompts returned, to
\* encode it, no step writes the map or is stopped by the race.  (The
\* look-ups in the resource and tool registries are made under the lock.)
C25_RegistrationSafe ==
    [][(\E t \in Running : EncodesPrompts(t))
       => (prompts' = prompts /\ serve' # "crashed")]_vars

\* C26: with the resource "double" registered, a goroutine that runs a
\* sub-handler for getResource runs the handler registered under the inner
\* name in the resource registry, whatever the tool registry holds under
\* that name; and a getResource call with value 5 that received its Response
\* returns the handler's response, double 10, and no failure.
C26_ResourceHandlerResult ==
    /\ \A t \in Running :
          (t.msg.method = "getResource" /\ t.pc = "running")
          => (/\ t.msg.params.name \in DOMAIN resourceHandlers
              /\ t.handler = resourceHandlers[t.msg.params.name]
              /\ ServeJSONRPC(t.handler, t.msg.params) =
                    TypedCall(t.handler.fn, t.msg.params.inner.value))
    /\ \A k \in Calls :
          (Received(k) /\ calls[k].method = "getResource")
          => calls[k].ret = [result |-> NumVal("double", 2 * 5), err |-> NilErr]

\* C26: a getResource call has returned double 10.
C26_Witness ==
    \E k \in Calls :
        /\ Received(k)
        /\ calls[k].method = "getResource"
        /\ calls[k].params = GoValue(ObjParams("double", InnerObj(5)))
        /\ calls[k].ret.result = NumVal("double", 10)

\* C27: executeTool has the shape of getResource: a goroutine that ended
\* after running the tool registered under the inner name has written the
\* Response getResource writes for the same inner params, present or absent,
\* when the same function is registered as a resource.
C27_ToolLikeResource ==
    (/\ finished.pc = "done"
     /\ finished.msg.method = "executeTool"
     /\ finished.handler.wrap = "Tool")
    => LET r == ServeJSONRPC(NewResource(finished.handler.fn), finished.msg.params)
       IN  finished.written = << HandlerResponse(RequestID(finished.msg), r.result, r.err) >>

\* The prompts registered by the calls made so far: for each name the
\* template of the last call with that name.
LastRegistered ==
    { registered[i] : i \in { i \in DOMAIN registered :
                                \A j \in DOMAIN registered : j > i => registered[j][1] # registered[i][1] } }

\* C28: after any sequence of RegisterPrompt calls, the Response to
\* listPrompts carries exactly the registered prompts by name, the last
\* registration of a name winning, and the Response to getPrompt with a
\* registered name carries that same prompt.
C28_PromptsAsRegistered ==
    finished.pc = "done"
    => /\ finished.msg.method = "listPrompts"
          => finished.written =
                << ResponseFrame(finished.msg.id, SetVal("prompts", LastRegistered), NoError) >>
       /\ (/\ finished.msg.method = "getPrompt"
           /\ \E pr \in LastRegistered : pr[1] = finished.msg.params.name)
          => \E pr \in LastRegistered :
                /\ pr[1] = finished.msg.params.name
                /\ finished.written =
                      << ResponseFrame(finished.msg.id, SetVal("prompt", {pr}), NoError) >>

\* C28: a name was registered twice with different templates, and
\* listPrompts was answered.
C28_Witness ==
    /\ finished.pc = "done"
    /\ finished.msg.method = "listPrompts"
    /\ Len(registered) = 2
    /\ registered[1][1] = registered[2][1]
    /\ registered[1][2] # registered[2][2]

\* The registry a built-in method looks the inner name up in.
RegistryOf(method) ==
    IF method = "getPrompt" THEN prompts
    ELSE IF method = "getResource" THEN resourceHandlers
    ELSE toolHandlers

\* C29: a goroutine that ended, for a getResource, executeTool or getPrompt
\* request whose inner name is not in the registry of the method, has
\* written one Response with error code -32000 and a not-found message that
\* names the inner name, and has run no registered handler; and no step of
\* a handleMessage goroutine changes a registry.
C29_NotFound ==
    [][/\ (/\ finished' # finished
           /\ finished'.msg.method \in {"getResource", "executeTool", "getPrompt"}
           /\ finished'.msg.params.k = "obj"
           /\ finished'.msg.params.name \notin DOMAIN RegistryOf(finished'.msg.method))
          => (/\ Len(finished'.written) = 1
              /\ finished'.written[1].result = Absent
              /\ finished'.written[1].error.present
              /\ finished'.written[1].error.code = ApplicationErrorCode
              /\ \E what \in {"resource not found: ", "tool not found: ", "prompt not found: "} :
                    finished'.written[1].error.message = <<what, finished'.msg.params.name>>
              /\ finished'.handler = NoHandler)
       /\ (tasks' # tasks \/ finished' # finished)
          => UNCHANGED <<handlers, prompts, resourceHandlers, toolHandlers>>]_vars

\* C29: a getResource with an unregistered inner name was answered while
\* another resource is registered.
C29_Witness ==
    /\ finished.pc = "done"
    /\ finished.msg.method = "getResource"
    /\ finished.msg.params.name = "missing"
    /\ finished.written # <<>>
    /\ "double" \in DOMAIN resourceHandlers

\* C30: when CallRaw writes its Request the pending call is registered
\* under the Request's identifier, and every Response with an identifier
\* that the read loop reads finds the entry of the call that allocated the
\* identifier: none is discarded as unmatched.
C30_RegisteredBeforeWritten ==
    [][/\ \A k \in Calls :
             calls'[k].writes > calls[k].writes
             => (/\ calls[k].id \in DOMAIN pendingRequests
                 /\ pendingRequests[calls[k].id] = k)
       /\ (ReadStep /\ Head(s2c).obj /\ Head(s2c).hasId)
          => (/\ MatchesPending(Head(s2c))
              /\ rl'.pc = "deliver"
              /\ calls[rl'.ch].id = Head(s2c).id.n
              /\ calls[rl'.ch].pc = "wait")]_vars

\* C30: the read loop has matched the Response to a call and is about to
\* deliver it, while a later call is registered and has not yet written.
C30_Witness ==
    /\ rl.pc = "deliver"
    /\ calls[rl.ch].pc = "wait"
    /\ rl.frame.id = NumId(calls[rl.ch].id)
    /\ \E k \in Calls : calls[k].pc = "encode" /\ calls[k].id \in DOMAIN pendingRequests

----------------------------------------------------------------------------
(* Properties of the identifier counter and the pending-call map.          *)

\* The calls that have returned.
Returned(k) == calls[k].pc = "done"

\* C31: in every state where a CallRaw has returned, whether with a
\* Response, after a failed send or after a failed encoding, the
\* pending-call map holds no entry for the identifier of that call.
C31_ResolvedEntryRemoved ==
    \A k \in Calls : Returned(k) => calls[k].id \notin DOMAIN pendingRequests

\* Every call has returned with the Response delivered to it, while the
\* read loop is back in ReadMessage.
C31_Witness ==
    /\ \A k \in Calls : Received(k) /\ Len(delivered[k]) = 1
    /\ rl.pc = "read"
    /\ pendingRequests = EmptyMap
    /\ nextID = MaxCalls

\* The step in which the first CallRaw of the client writes its Request.
FirstCallSends == calls[1].pc = "encode" /\ calls'[1].pc = "wait"

\* The Request written last.
LastWritten(q) == q[Len(q)]

\* C32 as stated: the first call issued on a new client sends a Request
\* whose identifier is 1.
C32_FirstIdentifierOne ==
    [][FirstCallSends => c2s' # <<>> /\ LastWritten(c2s').id = NumId(1)]_vars

\* C32, amended: NewClient leaves the counter at its zero value, so the
\* first call issued on a new client takes identifier 0 and sends a Request
\* whose identifier is 0.
C32_FirstIdentifierZero ==
    [][FirstCallSends =>
          /\ calls[1].id = 0
          /\ c2s' # <<>>
          /\ LastWritten(c2s').hasId
          /\ LastWritten(c2s').id = NumId(0)]_vars

\* The first call has written its Request, which is still on the stream,
\* and waits for the Response.
C32_Witness ==
    /\ calls[1].pc = "wait"
    /\ calls[1].writes = 1
    /\ c2s # <<>>
    /\ c2s[1] = CallRawRequest(calls[1])
    /\ c2s[1].id = NumId(0)

\* The calls that were given an identifier, now or earlier.
Allocated(k) == calls[k].pc # "idle"

\* C33: the identifiers a client allocates are strictly increasing in the
\* order of allocation and none is handed out twice, also after calls
\* have resolved or failed to send: every identifier allocated lies below
\* the counter, and the counter never goes down.
C33_StrictlyIncreasing ==
    /\ [](\A j, k \in Calls :
            /\ Allocated(k) => calls[k].id < nextID
            /\ Allocated(j) /\ Allocated(k) /\ j < k => calls[j].id < calls[k].id)
    /\ [][nextID' >= nextID]_vars

\* A call has resolved, a later one has failed to send and returned, and
\* the counter stands after both identifiers.
C33_Witness ==
    /\ Received(1)
    /\ calls[MaxCalls].pc = "done"
    /\ calls[MaxCalls].ret.err = WriteErr
    /\ calls[MaxCalls].id = MaxCalls - 1
    /\ nextID = MaxCalls

----------------------------------------------------------------------------
(* Properties of the server's lock.                                        *)

\* The step in which a handleMessage goroutine looks the method up in
\* s.handlers.
LooksUpMethod == \E t \in Running : ReadsHandlers(t) /\ TaskDecode(t)

\* C34: every access to the server's maps is made while holding the
\* server's lock; so the method-name look-up of a dispatch task is never
\* made while RegisterHandler holds the lock for its write, and the two
\* never meet in the map.
C34_MapAccessUnderLock ==
    /\ [][LooksUpMethod => mu = "none"]_vars
    /\ [](serve = "crashed" => reg # "locked")

\* A registered resource or tool handler, or a HandlerFunc of the
\* application, is executing in goroutine t.
HandlerRuns(t) == t.pc = "running"

\* A dispatch goroutine is about to call a built-in handler that takes the
\* lock.
WantsLock(t) == t.pc = "invoke" /\ TakesLock(t.handler, t.msg.params)

\* C35: the server's lock is never held while a registered resource or tool
\* handler executes.  While such a handler runs, or never returns, the lock
\* is held by no dispatch goroutine; a registration waiting for the lock
\* can take it and a dispatch goroutine that needs it can go on as soon as
\* no registration holds it; and a registration that waits for the lock
\* gets it.
C35_HandlersRunUnlocked ==
    /\ [](\A t \in Running : HandlerRuns(t) =>
              /\ mu # "task"
              /\ reg = "lock" => ENABLED RegisterHandlerLock
              /\ \A u \in Running : WantsLock(u) /\ mu # "reg" => ENABLED TaskInvoke(u))
    /\ (reg = "lock") ~> (reg # "lock" \/ serve = "crashed")

\* The resource handler is still running, entered through getResource,
\* while the registration made meanwhile is complete and a later request
\* was dispatched to a built-in handler and answered.
C35_Witness ==
    /\ \E t \in Running : HandlerRuns(t) /\ t.msg.method = "getResource"
                                           /\ t.handler.wrap = "Resource"
    /\ reg = "done"
    /\ "late" \in DOMAIN handlers
    /\ finished.pc = "done"
    /\ finished.msg.method = "listPrompts"

----------------------------------------------------------------------------
(* Properties of the delivery of a Response.                               *)

\* The read loop has taken a channel out of the map and is at the send.
Delivering == rl.pc = "deliver"

\* C36: delivering a Response never makes the read loop wait on a caller.
\* Whenever the read loop is at the send, the channel is open and has room,
\* so the send can proceed at once, wherever the issuing caller and the
\* other callers are; and the read loop leaves the send.
C36_DeliveryNeverWaits ==
    /\ [](Delivering =>
              /\ ~chans[rl.ch].closed
              /\ chans[rl.ch].buf = <<>>
              /\ ENABLED ReadLoopDeliver)
    /\ Delivering ~> ~Delivering

\* A Response was delivered to a call that has not written its Request
\* yet, while another call is under way.
C36_Witness ==
    /\ calls[1].pc = "encode"
    /\ Len(delivered[1]) = 1
    /\ chans[1].closed
    /\ calls[2].pc \in {"encode", "wait"}
    /\ rl.pc # "deliver"

\* The read loop has returned.
LoopExited == rl.pc = "stopped"

\* Call k waits for a Response and none was delivered to it.
Blocked(k) == calls[k].pc = "wait" /\ delivered[k] = <<>>

\* C37: once the read loop has returned on the end of the stream or on a
\* read error it stays so and no pending call is resolved: every caller
\* that waits then, or comes to wait later, has its entry in the map and
\* an empty open channel, and keeps waiting with both in every later step.
C37_NoResolutionAfterExit ==
    /\ [](LoopExited => \A k \in Calls : Blocked(k) =>
              /\ calls[k].id \in DOMAIN pendingRequests
              /\ pendingRequests[calls[k].id] = k
              /\ chans[k] = NewChan
              /\ ~ENABLED CallRawReceive(k))
    /\ [][LoopExited =>
              /\ LoopExited'
              /\ delivered' = delivered
              /\ \A k \in Calls : Blocked(k) => Blocked(k)']_vars

\* The read loop has returned on the end of the stream; a call made before
\* and a call made after both wait, their entries in the map, while a
\* Response to the first lies unread on the stream.
C37_Witness ==
    /\ LoopExited
    /\ rl.frame = EndOfStream
    /\ \A k \in Calls : Blocked(k) /\ calls[k].id \in DOMAIN pendingRequests
    /\ s2c = <<ResponseFrame(NumId(0), SomeResult, NoError)>>

----------------------------------------------------------------------------
(* Properties of the end of Serve.                                         *)

\* Serve has returned.
ServeReturned == serve \in {"returned nil", "returned error"}

\* A handleMessage goroutine whose next step is its own, not the
\* application's.
CanStep(t) == ENABLED (TaskDecode(t) \/ TaskInvoke(t) \/ TaskRespond(t))

\* C38: Serve does not wait for the goroutines it started.  With a frame on
\* the stream the loop can take its step whatever goroutines run, and the
\* step that returns leaves them as they are; after the return they go on,
\* each one that ends writes its Response then, and those that do not wait
\* for the application's handler all end.
C38_ServeReturnsBeforeTasks ==
    /\ [](serve = "loop" /\ c2s # <<>> => ENABLED ServeRead)
    /\ [](ServeReturned => \A t \in Running : (~HandlerRuns(t) => CanStep(t)))
    /\ [][/\ ((ServeStep /\ Head(c2s).bad \in {"json", "eof"})
                  => (ServeReturned' /\ tasks' = tasks))
           /\ ((ServeReturned /\ BagCardinality(tasks') < BagCardinality(tasks))
                  => (Len(s2c') = Len(s2c) + 1
                      /\ s2c'[Len(s2c')] = finished'.written[1]))]_vars
    /\ (ServeReturned /\ tasks # EmptyBag)
          ~> (tasks = EmptyBag \/ \E t \in Running : HandlerRuns(t))

\* Serve has returned on a failed read, and the goroutine it started for
\* the request read before is about to encode and write its Response.
C38_Witness ==
    /\ serve = "returned error"
    /\ s2c = <<>>
    /\ \E t \in Running : /\ t.pc = "respond"
                           /\ t.msg.method = "getResource"
                           /\ t.result = Result(NumVal("double", 2))

----------------------------------------------------------------------------
(* Properties of Close on the event-stream transport.                      *)

\* C39: a Close on the event-stream transport returns, wherever its
\* readLoop is: the loop sees the stop signal and ends, also when it is at
\* the send on eventChan with no ReadMessage waiting or at the read of the
\* next line.
C39_SSECloseReturns == (sse.closer = "wait") ~> (sse.closer = "done")

----------------------------------------------------------------------------
(* What a delivery and a new call leave alone.                             *)

\* Every entry of the map but the one under identifier i is as it was, and
\* no entry is new.
OnlyEntryChanges(i) ==
    /\ DOMAIN pendingRequests' \subseteq DOMAIN pendingRequests
    /\ \A j \in DOMAIN pendingRequests \ {i} :
          j \in DOMAIN pendingRequests' /\ pendingRequests'[j] = pendingRequests[j]

\* The step in which call k is issued.
Issues(k) == calls[k].pc = "idle" /\ calls'[k].pc # "idle"

====
